---- MODULE Spec2Model ----
(***************************************************************************)
(* Verification model of the in-receipt portfolio site and its admin tool. *)
(*                                                                         *)
(*   SpecImages    admin server: upload, image save and image delete, with *)
(*                 the image host and the database as fallible services   *)
(*   SpecProjects  admin server: project reorder                           *)
(*   SpecScroll    desktop gallery: the two smooth-scroll columns and the  *)
(*                 sliding project panels                                  *)
(*   SpecFlip      the FLIP project modal with its frame and timer         *)
(*                 callbacks                                               *)
(*   SpecOpenClose opening and closing a project: the mobile card          *)
(*                 controller and the desktop panels                       *)
(*   SpecForm      the admin upload form: file choice, validation, save    *)
(*                 and the focal point                                     *)
(*   SpecPreload   the gallery's image preloading and card fade-in         *)
(*   SpecProjectCrud  admin server: project create, update and delete      *)
(*   SpecColumns   the two smooth-scroll columns without the panels        *)
(*   SpecLib       the site's image library: initImages and its readers    *)
(*   SpecScrollLive  one column's animation under fair frame delivery      *)
(*   SpecWheel     one column's wheel debounce                             *)
(*   SpecPanels    the panels with clicks inside the column containers     *)
(*   SpecLightbox  the gallery lightbox over the desktop panels            *)
(*   SpecMobile    the mobile card controller with the lightbox            *)
(*   SpecEdit      the admin page's image edit modal with the upload form  *)
(*   SpecPage      the admin page's project reorder and publish            *)
(*   SpecRecords   admin server: image and project records together        *)
(***************************************************************************)
EXTENDS Integers, Sequences, FiniteSets, TLC

\* ------------------------------------------------------------------ bounds
MaxAssets == 2      \* assets the image host hands out
MaxList == 2        \* length of a submitted reorder list
MaxInits == 2       \* calls of initImages

\* ---------------------------------------------------------------- universe
ImageIds == {"a", "b"}
CfIds == 1..MaxAssets
Alts == {"", "x"}
ProjectIds == {"p1", "p2", "p3"}
Categories == {"residential", "commercial"}
Reqs == {1, 2}

VARIABLES
    images,     \* database table images: id -> row
    projects,   \* database table projects: id -> row
    remote,     \* assets that exist on the image host
    issued,     \* asset ids the image host has handed out so far
    reqs        \* in-flight admin requests: slot -> handler frame

VARIABLES
    state,            \* per column: ScrollState (startTime kept as elapsed)
    scrollTop,        \* per column: column.scrollTop
    targetIndex,      \* per column: targetIndex captured by animateScroll
    indicators,       \* per column: which scroll indicators are shown
    indicatorTimers,  \* per column: pending setTimeout(updateIndicators)
    accumulatedDelta, \* per column: wheel accumulator
    wheelTimeout,     \* per column: ms left on the wheel timer, -1 = null
    sinceWheel,       \* per column, while its wheel timer is pending: ms
                      \* since its last wheel event (<= 50) and whether the
                      \* handler accumulated that event
    touchStartY,      \* per column: clientY of the last touchstart
    galleryClasses    \* project-open-* classes of .main-gallery

VARIABLES
    modalOpen,          \* #project-modal has class open
    bodyOverflow,       \* document.body.style.overflow
    currentSourceImage, \* card whose image was flipped, "" = null
    flipImage,          \* the clone flipImage points to, 0 = null
    attached,           \* flip-image clones attached to document.body
    frames,             \* requestAnimationFrame callbacks, in order
    timers,             \* pending setTimeout callbacks of the modal
    flipInputs,         \* open/close calls since the modal last was settled
    lastInput           \* the last of those calls

VARIABLES
    isMobile,             \* window.innerWidth < 768
    activeCard,           \* the expanded mobile card, "" = null
    savedScrollPositions, \* scrollLeft of the gallery rows at the last open
    cardClasses,          \* per mobile card: its expanded* classes
    contentStyle,         \* per mobile card: inline style of its title block
    titleBottom,          \* per mobile card: --title-bottom, 0 = not set
    infoHidden,           \* .mobile-info-btn has class hidden
    rowScroll,            \* per gallery row: scrollLeft
    rowSnapNone,          \* the rows have scrollSnapType 'none'
    snapTimer,            \* the 50 ms timer that re-enables scroll snap
    historyDepth,         \* history entries pushed on top of the page's own
    pendingScrollRestore, \* window.__pendingScrollRestore, <<>> = null
    navigated,            \* a popstate is with the view-transition router
    preOpen,              \* what the last opening click found
    openClose             \* where the page is in an open-then-close

VARIABLES
    loadedImages,      \* keys of the admin page's `images`
    storedIds,         \* ids the server holds
    currentFile,       \* the chosen file, NoFile = null
    imageIdInput,      \* imageIdInput.value
    saveBtnDisabled,   \* saveBtn.disabled
    uploadModalHidden, \* uploadModal has class hidden
    previewAreaHidden, \* previewArea has class hidden (uploadArea shown)
    readerPending,     \* a FileReader / preview image load is under way
    save,              \* the running handleSave: its position, its id and
                       \* the answer to its upload
    focalPoint,        \* focalPoint.x and .y as fractions
    focalSetBy,        \* what assigned focalPoint last
    sent               \* requests sent by handleSave: url, id used or not

VARIABLES
    preloads,       \* the Image objects created by preloadImage, in order
    preloaderRan,   \* setupPreloader has run
    hovered,        \* cards whose once-only mouseenter listener has fired
    thumbnails,     \* per card: state of its thumbnail image
    fadeListeners,  \* cards whose thumbnail got load/error listeners
    cardLoaded      \* cards whose inner element has class loaded

VARIABLES
    imagesData,     \* the library's module-level cache, null until fetched
    initCalls,      \* per initImages call: where the call stands
    initialized,    \* an initImages call has completed successfully
    lastCall        \* the last call of a reader and how it ended

VARIABLES
    lightboxOpen,          \* #lightbox has class open
    currentGalleryImages,  \* the images the lightbox steps through
    currentImageIndex,     \* index (from 0) of the image shown
    lightboxImage,         \* .lightbox__image: src, loaded class, loader
    lightboxNav,           \* which nav buttons have class hidden
    cleanupTimers          \* ms left on the timers set by closeLightbox

VARIABLES
    editModalHidden,   \* #edit-modal has class hidden
    editingId,         \* the image the edit modal was opened for
    imageFocal,        \* images[id].focalPoint of the loaded images
    updateBtnDisabled, \* updateBtn.disabled
    update,            \* handleUpdate: where it stands and what it sent
    editFocal          \* the focal point stored at the opening of the edit
                       \* modal and the last click on its preview since

VARIABLES
    pageProjects,          \* the admin page's projects: rank by id
    listOrder,             \* the project cards of the list, in DOM order
    reorderCalls,          \* the calls of handleProjectReorder
    hasUnpublishedChanges, \* localStorage item hasUnpublishedChanges
    publishBtnDisabled,    \* publishBtn.disabled
    publish,               \* handlePublish: where it stands
    pendingChange,         \* a mutation has succeeded and no publish started
                           \* after it has succeeded
    changedDuringPublish   \* a mutation started and succeeded since the
                           \* publish request in flight was started

serverVars == <<images, projects, remote, issued, reqs>>
scrollVars == <<state, scrollTop, targetIndex, indicators, indicatorTimers,
                accumulatedDelta, wheelTimeout, sinceWheel, touchStartY,
                galleryClasses>>
flipVars == <<modalOpen, bodyOverflow, currentSourceImage, flipImage, attached,
              frames, timers, flipInputs, lastInput>>
mobileVars == <<isMobile, activeCard, savedScrollPositions, cardClasses,
                contentStyle, titleBottom, infoHidden, rowScroll, rowSnapNone,
                snapTimer, historyDepth, pendingScrollRestore, navigated,
                preOpen, openClose>>
formVars == <<loadedImages, storedIds, currentFile, imageIdInput,
              saveBtnDisabled, uploadModalHidden, previewAreaHidden,
              readerPending, save, focalPoint, focalSetBy, sent>>
preloadVars == <<preloads, preloaderRan, hovered, thumbnails, fadeListeners,
                 cardLoaded>>
libVars == <<imagesData, initCalls, initialized, lastCall>>
lightboxVars == <<lightboxOpen, currentGalleryImages, currentImageIndex,
                  lightboxImage, lightboxNav, cleanupTimers>>
editVars == <<editModalHidden, editingId, imageFocal, updateBtnDisabled,
              update, editFocal>>
pageVars == <<pageProjects, listOrder, reorderCalls, hasUnpublishedChanges,
              publishBtnDisabled, publish, pendingChange, changedDuringPublish>>
restVars == <<preloadVars, libVars, lightboxVars, editVars, pageVars>>
\* what the upload form and the edit modal both leave alone
nonAdminVars == <<serverVars, scrollVars, flipVars, mobileVars, preloadVars,
                  libVars, lightboxVars>>
vars == <<serverVars, scrollVars, flipVars, mobileVars, formVars, restVars>>
nonServerVars == <<scrollVars, flipVars, mobileVars, formVars, restVars>>
nonScrollVars == <<serverVars, flipVars, mobileVars, formVars, restVars>>
nonFlipVars == <<serverVars, scrollVars, mobileVars, formVars, restVars>>
nonFormVars == <<serverVars, scrollVars, flipVars, mobileVars, restVars>>
nonPreloadVars == <<serverVars, scrollVars, flipVars, mobileVars, formVars,
                    libVars, lightboxVars, editVars, pageVars>>
nonLibVars == <<serverVars, scrollVars, flipVars, mobileVars, formVars,
                preloadVars, lightboxVars, editVars,
                pageVars>>
\* what the lightbox leaves alone; it writes document.body.style.overflow
nonLightboxVars == <<serverVars, scrollVars, mobileVars, formVars, preloadVars,
                     libVars, editVars, pageVars, modalOpen, currentSourceImage,
                     flipImage, attached, frames, timers, flipInputs,
                     lastInput>>

\* ----------------------------------------------------------- server: rows
NoReq ==
    [op |-> "none", pc |-> "idle", id |-> "", cfId |-> 0, alt |-> "",
     category |-> "", ids |-> <<>>, todo |-> {}, cfSuccess |-> FALSE,
     dbError |-> FALSE, status |-> 0, title |-> "", rank |-> 0,
     thumbnail |-> "", imageList |-> <<>>, dbCalls |-> 0, cfCalls |-> 0]

\* SQL NULL in a column that holds an image id
NullId == ""

imageDataToRow(cfId, alt) == [cloudflare_id |-> cfId, alt |-> alt]

InsertIfAbsent(table, id, row) ==
    [i \in DOMAIN table \cup {id} |-> IF i \in DOMAIN table THEN table[i]
                                        ELSE row]

Upsert(table, id, row) ==
    [i \in DOMAIN table \cup {id} |-> IF i = id THEN row ELSE table[i]]

DeleteRow(table, id) ==
    [i \in DOMAIN table \ {id} |-> table[i]]

Free(r) == reqs[r].pc \in {"idle", "done"}

\* the frame after one more call to the database / to the image host
DbCalled(frame) == [frame EXCEPT !.dbCalls = @ + 1]
CfCalled(frame) == [frame EXCEPT !.cfCalls = @ + 1]

\* the frame of an answered request
Done(frame, code) ==
    [NoReq EXCEPT !.op = frame.op, !.pc = "done", !.id = frame.id,
                  !.cfSuccess = frame.cfSuccess, !.status = code,
                  !.dbCalls = frame.dbCalls, !.cfCalls = frame.cfCalls]

Respond(r, code) == reqs' = [reqs EXCEPT ![r] = Done(reqs[r], code)]

\* the answer that follows a database call / an image host call
RespondDb(r, code) ==
    reqs' = [reqs EXCEPT ![r] = Done(DbCalled(reqs[r]), code)]
RespondCf(r, code) ==
    reqs' = [reqs EXCEPT ![r] = Done(CfCalled(reqs[r]), code)]

\* -------------------------------------------------- POST /api/upload
UploadStart(r) ==
    /\ Free(r)
    /\ reqs' = [reqs EXCEPT ![r] = [NoReq EXCEPT !.op = "upload", !.pc = "cf"]]
    /\ UNCHANGED <<images, projects, remote, issued>>
    /\ UNCHANGED nonServerVars

UploadCf(r) ==
    /\ reqs[r].op = "upload" /\ reqs[r].pc = "cf"
    /\ \/ \E c \in CfIds \ issued :
            /\ remote' = remote \cup {c}
            /\ issued' = issued \cup {c}
            /\ reqs' = [reqs EXCEPT ![r].pc = "done", ![r].status = 200,
                                    ![r].cfSuccess = TRUE,
                                    ![r].cfCalls = @ + 1]
       \/ /\ RespondCf(r, 500)
          /\ UNCHANGED <<remote, issued>>
    /\ UNCHANGED <<images, projects>>
    /\ UNCHANGED nonServerVars

\* -------------------------------------------------- POST /api/images/:id
SaveImageStart(r) ==
    /\ Free(r)
    /\ \E id \in ImageIds, c \in remote, a \in Alts :
          reqs' = [reqs EXCEPT ![r] = [NoReq EXCEPT !.op = "saveImage",
                      !.pc = "db", !.id = id, !.cfId = c, !.alt = a]]
    /\ UNCHANGED <<images, projects, remote, issued>>
    /\ UNCHANGED nonServerVars

SaveImageDb(r) ==
    /\ reqs[r].op = "saveImage" /\ reqs[r].pc = "db"
    /\ \/ /\ images' = Upsert(images, reqs[r].id,
                              imageDataToRow(reqs[r].cfId, reqs[r].alt))
          /\ RespondDb(r, 200)
       \/ /\ RespondDb(r, 500)
          /\ UNCHANGED images
    /\ UNCHANGED <<projects, remote, issued>>
    /\ UNCHANGED nonServerVars

\* ------------------------------------------------ DELETE /api/images/:id
DeleteImageStart(r) ==
    /\ Free(r)
    /\ \E id \in ImageIds :
          reqs' = [reqs EXCEPT ![r] = [NoReq EXCEPT !.op = "deleteImage",
                      !.pc = "fetch", !.id = id]]
    /\ UNCHANGED <<images, projects, remote, issued>>
    /\ UNCHANGED nonServerVars

DeleteImageFetch(r) ==
    /\ reqs[r].op = "deleteImage" /\ reqs[r].pc = "fetch"
    /\ \/ /\ reqs[r].id \in DOMAIN images
          /\ reqs' = [reqs EXCEPT ![r].pc = "cf", ![r].dbCalls = @ + 1,
                         ![r].cfId = images[reqs[r].id].cloudflare_id]
       \/ RespondDb(r, 404)
    /\ UNCHANGED <<images, projects, remote, issued>>
    /\ UNCHANGED nonServerVars

CfMutantProceeds(r) == TRUE

CfConfirmed(r) == reqs[r].cfSuccess

DeleteImageCf(r) ==
    /\ reqs[r].op = "deleteImage" /\ reqs[r].pc = "cf"
    /\ \/ /\ reqs[r].cfId \in remote
          /\ remote' = remote \ {reqs[r].cfId}
          /\ reqs' = [reqs EXCEPT ![r].pc = "cfData", ![r].cfSuccess = TRUE,
                                  ![r].cfCalls = @ + 1]
       \/ /\ reqs' = [reqs EXCEPT ![r].pc = "cfData", ![r].cfSuccess = FALSE,
                                  ![r].cfCalls = @ + 1]
          /\ UNCHANGED remote
       \/ /\ RespondCf(r, 500)
          /\ UNCHANGED remote
    /\ UNCHANGED <<images, projects, issued>>
    /\ UNCHANGED nonServerVars

DeleteImageCheck(r) ==
    /\ reqs[r].op = "deleteImage" /\ reqs[r].pc = "cfData"
    /\ IF CfConfirmed(r)
          THEN reqs' = [reqs EXCEPT ![r].pc = "db"]
          ELSE Respond(r, 500)
    /\ UNCHANGED <<images, projects, remote, issued>>
    /\ UNCHANGED nonServerVars

\* thumbnail TEXT REFERENCES images(id) ON DELETE SET NULL
ThumbnailsSetNull(table, id) ==
    [p \in DOMAIN table |->
        IF table[p].thumbnail = id THEN [table[p] EXCEPT !.thumbnail = NullId]
        ELSE table[p]]

DeleteImageDb(r) ==
    /\ reqs[r].op = "deleteImage" /\ reqs[r].pc = "db"
    /\ \/ /\ images' = DeleteRow(images, reqs[r].id)
          /\ projects' = ThumbnailsSetNull(projects, reqs[r].id)
          /\ RespondDb(r, 200)
       \/ /\ RespondDb(r, 500)
          /\ UNCHANGED <<images, projects>>
    /\ UNCHANGED <<remote, issued>>
    /\ UNCHANGED nonServerVars

\* ---------------------------------------------- PUT /api/projects/reorder
Range(q) == {q[i] : i \in DOMAIN q}

RECURSIVE ListsUpTo(_, _)
ListsUpTo(S, n) ==
    IF n = 0 THEN {<<>>}
    ELSE LET shorter == ListsUpTo(S, n - 1)
         IN  shorter \cup {Append(q, x) : q \in shorter, x \in S}

\* the admin page builds the list from the rendered cards: no id twice
SubmittedLists == {q \in ListsUpTo(ProjectIds, MaxList) :
                      Cardinality(Range(q)) = Len(q)}

ReorderStart(r) ==
    /\ Free(r)
    /\ \E c \in Categories \cup {""}, ids \in SubmittedLists :
          IF c = ""
          THEN reqs' = [reqs EXCEPT ![r] = [NoReq EXCEPT !.op = "reorder",
                           !.pc = "done", !.status = 400]]
          ELSE reqs' = [reqs EXCEPT ![r] = [NoReq EXCEPT !.op = "reorder",
                           !.pc = "updates", !.category = c, !.ids = ids,
                           !.todo = DOMAIN ids]]
    /\ UNCHANGED <<images, projects, remote, issued>>
    /\ UNCHANGED nonServerVars

RankUpdateIgnoresCategory(r, k) ==
    reqs[r].ids[k] \in DOMAIN projects

RankUpdateMatches(r, k) ==
    /\ reqs[r].ids[k] \in DOMAIN projects
    /\ projects[reqs[r].ids[k]].category = reqs[r].category

ReorderUpdate(r) ==
    /\ reqs[r].op = "reorder" /\ reqs[r].pc = "updates"
    /\ \E k \in reqs[r].todo :
          \/ /\ projects' = IF RankUpdateMatches(r, k)
                             THEN [projects EXCEPT ![reqs[r].ids[k]].rank = k - 1]
                             ELSE projects
             /\ reqs' = [reqs EXCEPT ![r].todo = @ \ {k},
                                     ![r].dbCalls = @ + 1]
          \/ /\ UNCHANGED projects     \* the update resolves to {error}
             /\ reqs' = [reqs EXCEPT ![r].todo = @ \ {k}, ![r].dbError = TRUE,
                                     ![r].dbCalls = @ + 1]
    /\ UNCHANGED <<images, remote, issued>>
    /\ UNCHANGED nonServerVars

ReorderRespond(r) ==
    /\ reqs[r].op = "reorder" /\ reqs[r].pc = "updates"
    /\ reqs[r].todo = {}
    /\ Respond(r, 200)
    /\ UNCHANGED <<images, projects, remote, issued>>
    /\ UNCHANGED nonServerVars

\* ------------------------------------- POST/PUT/DELETE /api/projects
\* ids used by the create, update and delete requests: one that exists at
\* the start and one that does not
CrudIds == {"p1", "p4"}

NoRank == -1

\* request bodies: title, category, rank (NoRank = not given), thumbnail
\* ("" = not given) and images
ProjectBodies ==
    { [title |-> "n", category |-> "residential", rank |-> NoRank,
       thumbnail |-> "a", images |-> <<"a">>],
      [title |-> "m", category |-> "commercial", rank |-> 1,
       thumbnail |-> "", images |-> <<>>] }

\* projectDataToRow, for the columns the model keeps
projectDataToRow(data) ==
    [category |-> data.category,
     rank |-> IF data.rank = NoRank THEN 0 ELSE data.rank,
     title |-> data.title,
     thumbnail |-> IF data.thumbnail = "" THEN NullId ELSE data.thumbnail,
     images |-> data.imageList]

\* thumbnail TEXT REFERENCES images(id): a row with a thumbnail that is no
\* image id is rejected
ThumbnailReferenced(thumbnail) ==
    thumbnail = NullId \/ thumbnail \in DOMAIN images

CreateProjectStart(r) ==
    /\ Free(r)
    /\ \E id \in CrudIds, body \in ProjectBodies :
          reqs' = [reqs EXCEPT ![r] = [NoReq EXCEPT !.op = "createProject",
                      !.pc = "check", !.id = id, !.title = body.title,
                      !.category = body.category, !.rank = body.rank,
                      !.thumbnail = body.thumbnail,
                      !.imageList = body.images]]
    /\ UNCHANGED <<images, projects, remote, issued>>
    /\ UNCHANGED nonServerVars

\* select('id').eq('id', id).single(): data is the row, or null when there
\* is none or the query fails (the error is not looked at)
CreateProjectCheck(r) ==
    /\ reqs[r].op = "createProject" /\ reqs[r].pc = "check"
    /\ \/ /\ reqs[r].id \in DOMAIN projects
          /\ RespondDb(r, 400)
       \/ reqs' = [reqs EXCEPT ![r].pc = "insert", ![r].dbCalls = @ + 1]
    /\ UNCHANGED <<images, projects, remote, issued>>
    /\ UNCHANGED nonServerVars

NoPrimaryKey(id) == TRUE

\* id TEXT PRIMARY KEY: an insert of a present id is rejected
PrimaryKeyFree(id) == id \notin DOMAIN projects

CreateProjectInsert(r) ==
    /\ reqs[r].op = "createProject" /\ reqs[r].pc = "insert"
    /\ \/ /\ PrimaryKeyFree(reqs[r].id)
          /\ ThumbnailReferenced(projectDataToRow(reqs[r]).thumbnail)
          /\ projects' = Upsert(projects, reqs[r].id, projectDataToRow(reqs[r]))
          /\ RespondDb(r, 200)
       \/ /\ RespondDb(r, 500)
          /\ UNCHANGED projects
    /\ UNCHANGED <<images, remote, issued>>
    /\ UNCHANGED nonServerVars

UpdateProjectStart(r) ==
    /\ Free(r)
    /\ \E id \in CrudIds, body \in ProjectBodies :
          reqs' = [reqs EXCEPT ![r] = [NoReq EXCEPT !.op = "updateProject",
                      !.pc = "db", !.id = id, !.title = body.title,
                      !.category = body.category, !.rank = body.rank,
                      !.thumbnail = body.thumbnail,
                      !.imageList = body.images]]
    /\ UNCHANGED <<images, projects, remote, issued>>
    /\ UNCHANGED nonServerVars

\* update(row).eq('id', id).select().single(): no row gives PGRST116
UpdateProjectDb(r) ==
    /\ reqs[r].op = "updateProject" /\ reqs[r].pc = "db"
    /\ \/ /\ reqs[r].id \in DOMAIN projects
          /\ ThumbnailReferenced(projectDataToRow(reqs[r]).thumbnail)
          /\ projects' = Upsert(projects, reqs[r].id, projectDataToRow(reqs[r]))
          /\ RespondDb(r, 200)
       \/ /\ reqs[r].id \notin DOMAIN projects
          /\ RespondDb(r, 404)
          /\ UNCHANGED projects
       \/ /\ RespondDb(r, 500)
          /\ UNCHANGED projects
    /\ UNCHANGED <<images, remote, issued>>
    /\ UNCHANGED nonServerVars

DeleteProjectStart(r) ==
    /\ Free(r)
    /\ \E id \in CrudIds :
          reqs' = [reqs EXCEPT ![r] = [NoReq EXCEPT !.op = "deleteProject",
                      !.pc = "db", !.id = id]]
    /\ UNCHANGED <<images, projects, remote, issued>>
    /\ UNCHANGED nonServerVars

NoCount == -1

\* delete() is called without a count option: the answer's count is null
CountReturned(deleted) == NoCount

DeleteProjectDb(r) ==
    /\ reqs[r].op = "deleteProject" /\ reqs[r].pc = "db"
    /\ \/ LET deleted == IF reqs[r].id \in DOMAIN projects THEN 1 ELSE 0
          IN  /\ projects' = DeleteRow(projects, reqs[r].id)
              /\ IF CountReturned(deleted) = 0
                 THEN RespondDb(r, 404)
                 ELSE RespondDb(r, 200)
       \/ /\ RespondDb(r, 500)
          /\ UNCHANGED projects
    /\ UNCHANGED <<images, remote, issued>>
    /\ UNCHANGED nonServerVars

\* ===================================================== smooth scroll
SCROLL_DURATION == 1200
PROJECT_SLIDE_DURATION == 700
WheelDelay == 50
WheelThreshold == 50
TouchThreshold == 30

Columns == {"left", "right"}
CardCount == [c \in Columns |-> IF c = "left" THEN 3 ELSE 2]
InnerHeight == 24 * 24 * 24
FrameGaps == {600}
WheelDeltas == {-60, 30}
TouchYs == {0, 40}
Keys == {"ArrowDown", "ArrowUp"}

Min(a, b) == IF a < b THEN a ELSE b
Max(a, b) == IF a > b THEN a ELSE b
Abs(a) == IF a < 0 THEN -a ELSE a

\* 1 - (1 - t)^3 at t = elapsed / SCROLL_DURATION, as a fraction num / den
\* (time is counted in steps of 50 ms)
EasingDen == (SCROLL_DURATION \div 50) * (SCROLL_DURATION \div 50)
                 * (SCROLL_DURATION \div 50)
\* progress that stops one step short of 1
ProgressBelowOne(elapsed) == Min(elapsed, SCROLL_DURATION - 50)

\* progress = Math.min(elapsed / SCROLL_DURATION, 1), in ms of the duration
Progress(elapsed) == Min(elapsed, SCROLL_DURATION)

EasingNum(elapsed) ==
    LET rest == (SCROLL_DURATION - Progress(elapsed)) \div 50
    IN  EasingDen - rest * rest * rest

getCardHeight == InnerHeight

isScrollDisabled(c) ==
    \/ c = "left" /\ "project-open-left" \in galleryClasses
    \/ c = "right" /\ "project-open-right" \in galleryClasses

UpdatedIndicators(c, index) ==
    [up |-> index > 0, down |-> index < CardCount[c] - 1]

HiddenIndicators == [up |-> FALSE, down |-> FALSE]

ClampNoLower(index, maxIndex) == Min(index, maxIndex)

ClampIndex(index, maxIndex) == Max(0, Min(index, maxIndex))

BlockedAlways(c) == isScrollDisabled(c)

BlockedByAnyColumn(c) ==
    (\E k \in Columns : state[k].isScrolling) \/ isScrollDisabled(c)

Blocked(c) == state[c].isScrolling \/ isScrollDisabled(c)

\* scrollToIndex(index) of column c; frame says what the caller leaves alone
scrollToIndex(c, index) ==
    LET clampedIndex == ClampIndex(index, CardCount[c] - 1)
    IN  IF Blocked(c) \/ clampedIndex = state[c].currentIndex
        THEN UNCHANGED <<state, targetIndex, indicators>>
        ELSE /\ indicators' = [indicators EXCEPT ![c] = HiddenIndicators]
             /\ state' = [state EXCEPT ![c] =
                    [isScrolling |-> TRUE,
                     currentIndex |-> state[c].currentIndex,
                     elapsed |-> 0,
                     startPosition |-> scrollTop[c],
                     targetPosition |-> clampedIndex * getCardHeight]]
             /\ targetIndex' = [targetIndex EXCEPT ![c] = clampedIndex]

\* one requestAnimationFrame callback of column c
AnimateScroll(c) ==
    /\ state[c].isScrolling
    /\ LET st == state[c]
           newPosition == st.startPosition +
               ((st.targetPosition - st.startPosition) * EasingNum(st.elapsed))
                   \div EasingDen
       IN  /\ scrollTop' = [scrollTop EXCEPT ![c] = newPosition]
           /\ IF Progress(st.elapsed) < SCROLL_DURATION
              THEN UNCHANGED <<state, indicators>>
              ELSE /\ state' = [state EXCEPT ![c].isScrolling = FALSE,
                                             ![c].currentIndex = targetIndex[c]]
                   /\ indicators' = [indicators EXCEPT ![c] =
                          UpdatedIndicators(c, targetIndex[c])]
    /\ UNCHANGED <<targetIndex, indicatorTimers, accumulatedDelta,
                   wheelTimeout, sinceWheel, touchStartY, galleryClasses>>
    /\ UNCHANGED nonScrollVars

IndicatorClick(c, dir) ==
    /\ indicators[c][dir]
    /\ IF isScrollDisabled(c)
       THEN UNCHANGED <<state, targetIndex, indicators>>
       ELSE scrollToIndex(c, state[c].currentIndex +
                                 (IF dir = "up" THEN -1 ELSE 1))
    /\ UNCHANGED <<scrollTop, indicatorTimers, accumulatedDelta, wheelTimeout, sinceWheel,
                   touchStartY, galleryClasses>>
    /\ UNCHANGED nonScrollVars

MaxDelta == 60

\* no wheel timer pending
NoWheel == [ms |-> WheelDelay, handled |-> FALSE]

\* a timer that is running is left running: the first event of a burst
\* decides when it fires
KeptRunning(left) == IF left = -1 THEN WheelDelay ELSE left

\* clearTimeout and setTimeout(..., 50) on every event that is not ignored
Rearmed(left) == WheelDelay

Wheel(c, deltaY) ==
    /\ Abs(accumulatedDelta[c] + deltaY) <= MaxDelta
    /\ IF Blocked(c)
       THEN UNCHANGED <<accumulatedDelta, wheelTimeout>>
       ELSE /\ accumulatedDelta' =
                   [accumulatedDelta EXCEPT ![c] = @ + deltaY]
            /\ wheelTimeout' = [wheelTimeout EXCEPT ![c] = Rearmed(@)]
    /\ sinceWheel' = [sinceWheel EXCEPT
          ![c] = IF Blocked(c) /\ wheelTimeout[c] = -1 THEN NoWheel
                 ELSE [ms |-> 0, handled |-> ~Blocked(c)]]
    /\ UNCHANGED <<state, scrollTop, targetIndex, indicators, indicatorTimers,
                   touchStartY, galleryClasses>>
    /\ UNCHANGED nonScrollVars

WheelTimerFires(c) ==
    /\ wheelTimeout[c] = 0
    /\ wheelTimeout' = [wheelTimeout EXCEPT ![c] = -1]
    /\ accumulatedDelta' = [accumulatedDelta EXCEPT ![c] = 0]
    /\ IF Abs(accumulatedDelta[c]) > WheelThreshold
       THEN scrollToIndex(c, state[c].currentIndex +
                                 (IF accumulatedDelta[c] > 0 THEN 1 ELSE -1))
       ELSE UNCHANGED <<state, targetIndex, indicators>>
    /\ sinceWheel' = [sinceWheel EXCEPT ![c] = NoWheel]
    /\ UNCHANGED <<scrollTop, indicatorTimers, touchStartY, galleryClasses>>
    /\ UNCHANGED nonScrollVars

TouchStart(c, y) ==
    /\ touchStartY' = [touchStartY EXCEPT ![c] = y]
    /\ UNCHANGED <<state, scrollTop, targetIndex, indicators, indicatorTimers,
                   accumulatedDelta, wheelTimeout, sinceWheel, galleryClasses>>
    /\ UNCHANGED nonScrollVars

TouchEnd(c, touchEndY) ==
    /\ LET deltaY == touchStartY[c] - touchEndY
       IN  IF ~Blocked(c) /\ Abs(deltaY) > TouchThreshold
           THEN scrollToIndex(c, state[c].currentIndex +
                                     (IF deltaY > 0 THEN 1 ELSE -1))
           ELSE UNCHANGED <<state, targetIndex, indicators>>
    /\ UNCHANGED <<scrollTop, indicatorTimers, accumulatedDelta, wheelTimeout, sinceWheel,
                   touchStartY, galleryClasses>>
    /\ UNCHANGED nonScrollVars

KeyDown(c, key) ==
    /\ IF ~Blocked(c)
       THEN scrollToIndex(c, state[c].currentIndex +
                                 (IF key = "ArrowDown" THEN 1 ELSE -1))
       ELSE UNCHANGED <<state, targetIndex, indicators>>
    /\ UNCHANGED <<scrollTop, indicatorTimers, accumulatedDelta, wheelTimeout, sinceWheel,
                   touchStartY, galleryClasses>>
    /\ UNCHANGED nonScrollVars

IndicatorTimerFires(c) ==
    /\ 0 \in indicatorTimers[c]
    /\ indicatorTimers' = [indicatorTimers EXCEPT ![c] = @ \ {0}]
    /\ indicators' = [indicators EXCEPT ![c] =
           UpdatedIndicators(c, state[c].currentIndex)]
    /\ UNCHANGED <<state, scrollTop, targetIndex, accumulatedDelta,
                   wheelTimeout, sinceWheel, touchStartY, galleryClasses>>
    /\ UNCHANGED nonScrollVars

\* the timers that are running, as ms left
PendingTimers ==
    (UNION {indicatorTimers[c] : c \in Columns})
        \cup ({wheelTimeout[c] : c \in Columns} \ {-1})

\* time passes, by a frame gap or up to the next timer; no timer is overrun
Delay(d) ==
    /\ d > 0
    /\ \A t \in PendingTimers : t >= d
    /\ \E c \in Columns :
          \/ state[c].isScrolling /\ state[c].elapsed < SCROLL_DURATION
          \/ wheelTimeout[c] # -1
          \/ indicatorTimers[c] # {}
    /\ state' = [c \in Columns |->
          IF state[c].isScrolling
          THEN [state[c] EXCEPT !.elapsed = Min(@ + d, SCROLL_DURATION)]
          ELSE state[c]]
    /\ wheelTimeout' = [c \in Columns |->
          IF wheelTimeout[c] = -1 THEN -1 ELSE wheelTimeout[c] - d]
    /\ sinceWheel' = [c \in Columns |->
          [sinceWheel[c] EXCEPT !.ms = Min(@ + d, WheelDelay)]]
    /\ indicatorTimers' = [c \in Columns |->
          {t - d : t \in indicatorTimers[c]}]
    /\ UNCHANGED <<scrollTop, targetIndex, indicators, accumulatedDelta,
                   touchStartY, galleryClasses>>
    /\ UNCHANGED nonScrollVars

\* ------------------------------------------- desktop project panels
MaxTimers == 1

\* the MutationObserver of every column, run after a class write
DisabledBy(c, classes) ==
    \/ c = "left" /\ "project-open-left" \in classes
    \/ c = "right" /\ "project-open-right" \in classes

ObservedIndicators(cols, classes) ==
    [c \in Columns |->
        IF c \in cols /\ DisabledBy(c, classes)
        THEN HiddenIndicators ELSE indicators[c]]

ObservedTimers(cols, classes) ==
    [c \in Columns |->
        IF c \in cols /\ ~DisabledBy(c, classes)
        THEN indicatorTimers[c] \cup {PROJECT_SLIDE_DURATION}
        ELSE indicatorTimers[c]]

\* a write to mainGallery.classList, seen by the observer of every column
\* in cols (the columns initSmoothScroll has set up)
WriteClasses(cols, classes) ==
    /\ \A c \in Columns : Cardinality(indicatorTimers[c]) < MaxTimers
    /\ galleryClasses' = classes
    /\ indicators' = ObservedIndicators(cols, classes)
    /\ indicatorTimers' = ObservedTimers(cols, classes)

\* only the left panel is looked at
isLeftProjectOpen == "project-open-left" \in galleryClasses

isProjectOpen == galleryClasses # {}

openProject(cols, column) ==
    WriteClasses(cols, galleryClasses \cup
        {IF column = "left" THEN "project-open-left" ELSE "project-open-right"})

closeProject(cols) == WriteClasses(cols, {})

\* document click: target inside a column container or not, on a card of a
\* column or on no card
ProjectClick(cols, inColumn, card) ==
    /\ IF isProjectOpen /\ inColumn
       THEN closeProject(cols)
       ELSE /\ card \in Columns
            /\ openProject(cols, card)
    /\ UNCHANGED <<state, scrollTop, targetIndex, accumulatedDelta,
                   wheelTimeout, sinceWheel, touchStartY>>
    /\ UNCHANGED nonScrollVars

ProjectEscape(cols) ==
    /\ isProjectOpen
    /\ closeProject(cols)
    /\ UNCHANGED <<state, scrollTop, targetIndex, accumulatedDelta,
                   wheelTimeout, sinceWheel, touchStartY>>
    /\ UNCHANGED nonScrollVars

InitScroll ==
    /\ state = [c \in Columns |->
                   [isScrolling |-> FALSE, currentIndex |-> 0, elapsed |-> 0,
                    startPosition |-> 0, targetPosition |-> 0]]
    /\ scrollTop = [c \in Columns |-> 0]
    /\ targetIndex = [c \in Columns |-> 0]
    /\ indicators = [c \in Columns |-> UpdatedIndicators(c, 0)]
    /\ indicatorTimers = [c \in Columns |-> {}]
    /\ accumulatedDelta = [c \in Columns |-> 0]
    /\ wheelTimeout = [c \in Columns |-> -1]
    /\ sinceWheel = [c \in Columns |-> NoWheel]
    /\ touchStartY = [c \in Columns |-> 0]
    /\ galleryClasses = {}

ScrollStep(cols) ==
    \/ \E c \in cols : AnimateScroll(c)
    \/ \E c \in cols, dir \in {"up", "down"} : IndicatorClick(c, dir)
    \/ \E c \in cols, deltaY \in WheelDeltas : Wheel(c, deltaY)
    \/ \E c \in cols : WheelTimerFires(c)
    \/ \E c \in cols, y \in TouchYs : TouchStart(c, y)
    \/ \E c \in cols, y \in TouchYs : TouchEnd(c, y)
    \/ \E c \in cols, key \in Keys : KeyDown(c, key)
    \/ \E c \in cols : IndicatorTimerFires(c)
    \/ \E d \in FrameGaps \cup PendingTimers : Delay(d)
    \/ \E inColumn \in BOOLEAN, card \in Columns \cup {"none"} :
          ProjectClick(cols, inColumn, card)
    \/ ProjectEscape(cols)

\* the column whose initSmoothScroll the panel specification runs
PanelColumns == {"left"}

NextScroll == ScrollStep(PanelColumns)

\* one column with its panels: key, touch, indicator and panel input
NextAnimation ==
    \/ \E c \in PanelColumns : AnimateScroll(c)
    \/ \E c \in PanelColumns, dir \in {"up", "down"} : IndicatorClick(c, dir)
    \/ \E c \in PanelColumns, y \in TouchYs : TouchStart(c, y)
    \/ \E c \in PanelColumns, y \in TouchYs : TouchEnd(c, y)
    \/ \E c \in PanelColumns, key \in Keys : KeyDown(c, key)
    \/ \E c \in PanelColumns : IndicatorTimerFires(c)
    \/ \E d \in FrameGaps \cup PendingTimers : Delay(d)
    \/ \E inColumn \in BOOLEAN, card \in Columns \cup {"none"} :
          ProjectClick(PanelColumns, inColumn, card)
    \/ ProjectEscape(PanelColumns)

\* a document click on a page whose desktop cards all lie inside the
\* column containers
PanelClick(inColumn, card) ==
    /\ card \in Columns => inColumn
    /\ ProjectClick(Columns, inColumn, card)

\* both columns with their panels: key and click input
NextPanels ==
    \/ \E c \in Columns : AnimateScroll(c)
    \/ \E c \in Columns, key \in Keys : KeyDown(c, key)
    \/ \E c \in Columns : IndicatorTimerFires(c)
    \/ \E d \in FrameGaps \cup PendingTimers : Delay(d)
    \/ \E inColumn \in BOOLEAN, card \in Columns \cup {"none"} :
          PanelClick(inColumn, card)

\* one column with its panels: wheel, key and panel input
NextWheel ==
    \/ \E c \in PanelColumns : AnimateScroll(c)
    \/ \E c \in PanelColumns, deltaY \in WheelDeltas : Wheel(c, deltaY)
    \/ \E c \in PanelColumns : WheelTimerFires(c)
    \/ \E c \in PanelColumns, key \in Keys : KeyDown(c, key)
    \/ \E c \in PanelColumns : IndicatorTimerFires(c)
    \/ \E d \in FrameGaps \cup PendingTimers : Delay(d)
    \/ \E inColumn \in BOOLEAN, card \in Columns \cup {"none"} :
          ProjectClick(PanelColumns, inColumn, card)
    \/ ProjectEscape(PanelColumns)

\* both columns set up by init, with key, touch and indicator input
NextColumns ==
    \/ \E c \in Columns : AnimateScroll(c)
    \/ \E c \in Columns, dir \in {"up", "down"} : IndicatorClick(c, dir)
    \/ \E c \in Columns, y \in TouchYs : TouchStart(c, y)
    \/ \E c \in Columns, y \in TouchYs : TouchEnd(c, y)
    \/ \E c \in Columns, key \in Keys : KeyDown(c, key)
    \/ \E d \in FrameGaps : Delay(d)

\* ========================================================= FLIP modal
MaxClones == 3
MaxCallbacks == 2
OpenTransition == 350
CloseTransition == 300

CloneIds == 1..MaxClones
ModalCards == {"card1", "card2", "noimage"}
InputGaps == {50}

Settled == frames = <<>> /\ timers = {}

\* history of the calls, for the claims only
Called(kind) ==
    /\ flipInputs' = IF Settled THEN 1 ELSE Min(flipInputs + 1, 2)
    /\ lastInput' = kind

\* document.createElement('img') + appendChild: a node not in the document
NewClone(c) ==
    /\ c \in CloneIds \ attached
    /\ flipImage' = c
    /\ attached' = attached \cup {c}

openModal(card) ==
    /\ Len(frames) + Cardinality(timers) < MaxCallbacks
    /\ IF card = "noimage"
       THEN UNCHANGED flipVars
       ELSE /\ currentSourceImage' = card
            /\ \E c \in CloneIds : NewClone(c)
            /\ modalOpen' = TRUE
            /\ bodyOverflow' = "hidden"
            /\ frames' = Append(frames, "open")
            /\ Called("open")
            /\ UNCHANGED timers

closeModal ==
    /\ Len(frames) + Cardinality(timers) < MaxCallbacks
    /\ IF currentSourceImage = ""
       THEN /\ modalOpen' = FALSE
            /\ bodyOverflow' = ""
            /\ UNCHANGED <<currentSourceImage, flipImage, attached, frames,
                           timers, flipInputs, lastInput>>
       ELSE /\ \E c \in CloneIds : NewClone(c)
            /\ modalOpen' = FALSE
            /\ frames' = Append(frames, "close")
            /\ Called("close")
            /\ UNCHANGED <<bodyOverflow, currentSourceImage, timers>>

\* document click on a card
ModalCardClick(card) ==
    /\ openModal(card)
    /\ UNCHANGED nonFlipVars

\* close button, or document click on the backdrop
ModalCloseClick ==
    /\ closeModal
    /\ UNCHANGED nonFlipVars

ModalEscape ==
    /\ modalOpen
    /\ closeModal
    /\ UNCHANGED nonFlipVars

\* the requestAnimationFrame callback of openModal or closeModal
FlipFrame ==
    /\ frames # <<>>
    /\ frames' = Tail(frames)
    /\ timers' = timers \cup
          {[kind |-> Head(frames),
            left |-> IF Head(frames) = "open" THEN OpenTransition
                     ELSE CloseTransition]}
    /\ UNCHANGED <<modalOpen, bodyOverflow, currentSourceImage, flipImage,
                   attached, flipInputs, lastInput>>
    /\ UNCHANGED nonFlipVars

KeptClones == {}

RemovedClones == IF flipImage = 0 THEN {} ELSE {flipImage}

FlipTimerFires(t) ==
    /\ t \in timers /\ t.left = 0
    /\ timers' = timers \ {t}
    /\ attached' = attached \ RemovedClones
    /\ flipImage' = 0
    /\ IF t.kind = "close"
       THEN /\ bodyOverflow' = ""
            /\ currentSourceImage' = ""
       ELSE UNCHANGED <<bodyOverflow, currentSourceImage>>
    /\ UNCHANGED <<modalOpen, frames, flipInputs, lastInput>>
    /\ UNCHANGED nonFlipVars

\* time passes once the frame callbacks have run; no timer is overrun
FlipDelay(d) ==
    /\ d > 0
    /\ frames = <<>> /\ timers # {}
    /\ \A t \in timers : t.left >= d
    /\ timers' = {[t EXCEPT !.left = @ - d] : t \in timers}
    /\ UNCHANGED <<modalOpen, bodyOverflow, currentSourceImage, flipImage,
                   attached, frames, flipInputs, lastInput>>
    /\ UNCHANGED nonFlipVars

InitFlip ==
    /\ modalOpen = FALSE
    /\ bodyOverflow = ""
    /\ currentSourceImage = ""
    /\ flipImage = 0
    /\ attached = {}
    /\ frames = <<>>
    /\ timers = {}
    /\ flipInputs = 0
    /\ lastInput = "none"

NextFlip ==
    \/ \E card \in ModalCards : ModalCardClick(card)
    \/ ModalCloseClick
    \/ ModalEscape
    \/ FlipFrame
    \/ \E t \in timers : FlipTimerFires(t)
    \/ \E d \in InputGaps \cup {t.left : t \in timers} : FlipDelay(d)

\* ============================================== opening and closing
MaxHistory == 2

MobileCards == {"house", "office"}
Rows == <<"residential", "commercial">>
RowOf(card) == IF card = "house" THEN 1 ELSE 2
ScrollLefts == {0, 320}

NoStyle == [position |-> "", top |-> 0, zIndex |-> 0]

\* contentEl.getBoundingClientRect(): the title block sits in its row
ContentRect(card) ==
    IF RowOf(card) = 1 THEN [top |-> 40, bottom |-> 60]
    ELSE [top |-> 80, bottom |-> 95]

FixedStyle(card) ==
    [position |-> "fixed", top |-> ContentRect(card).top, zIndex |-> 150]

\* the DOM and scroll state the claims speak of
Listed ==
    [cardClasses |-> cardClasses, contentStyle |-> contentStyle,
     titleBottom |-> titleBottom, infoHidden |-> infoHidden,
     bodyOverflow |-> bodyOverflow, activeCard |-> activeCard,
     rowScroll |-> rowScroll, galleryClasses |-> galleryClasses]

\* history of the inputs, for the claims only
Opening == preOpen' = Listed /\ openClose' = "opened"
Closing(how) ==
    /\ openClose' = IF openClose = "opened" THEN how ELSE "other"
    /\ UNCHANGED preOpen
OtherInput == openClose' = "other" /\ UNCHANGED preOpen

OnlyExpandedRemoved(classes) == classes \ {"expanded"}

ClosedClasses(classes) ==
    classes \ {"expanded", "expanded--upper", "expanded--lower"}

\* what closeActiveCard leaves of the given state
ClosedCard(st) ==
    IF st.activeCard = "" THEN st
    ELSE [st EXCEPT !.contentStyle[st.activeCard] = NoStyle,
                    !.cardClasses[st.activeCard] = ClosedClasses(@),
                    !.titleBottom[st.activeCard] = 0,
                    !.activeCard = "",
                    !.infoHidden = FALSE,
                    !.bodyOverflow = ""]

MobileState ==
    [cardClasses |-> cardClasses, contentStyle |-> contentStyle,
     titleBottom |-> titleBottom, infoHidden |-> infoHidden,
     bodyOverflow |-> bodyOverflow, activeCard |-> activeCard]

SetMobileState(st) ==
    /\ cardClasses' = st.cardClasses
    /\ contentStyle' = st.contentStyle
    /\ titleBottom' = st.titleBottom
    /\ infoHidden' = st.infoHidden
    /\ bodyOverflow' = st.bodyOverflow
    /\ activeCard' = st.activeCard

closeActiveCard == SetMobileState(ClosedCard(MobileState))

\* document click on the close button of the expanded card
MobileCloseClick ==
    /\ isMobile /\ activeCard # ""
    /\ closeActiveCard
    /\ Closing("closed")
    /\ UNCHANGED <<isMobile, savedScrollPositions, rowScroll, rowSnapNone,
                   snapTimer, historyDepth, pendingScrollRestore, navigated>>
    /\ UNCHANGED <<serverVars, scrollVars, modalOpen, currentSourceImage,
                   flipImage, attached, frames, timers, flipInputs, lastInput,
                   formVars, restVars>>

\* the click handler from "Close any existing open card first" on
ExpandCard(card) ==
    /\ LET st == IF activeCard # "" /\ activeCard # card
                 THEN ClosedCard(MobileState) ELSE MobileState
           position == IF RowOf(card) = 1 THEN "expanded--upper"
                       ELSE "expanded--lower"
       IN  SetMobileState(
             [st EXCEPT !.contentStyle[card] = FixedStyle(card),
                        !.titleBottom[card] = ContentRect(card).bottom,
                        !.cardClasses[card] =
                            ((@ \ {"expanded--upper", "expanded--lower"})
                                \cup {position}) \cup {"expanded"},
                        !.activeCard = card,
                        !.infoHidden = TRUE,
                        !.bodyOverflow = "hidden"])
    /\ savedScrollPositions' = [i \in DOMAIN Rows |-> rowScroll[i]]
    /\ historyDepth' = historyDepth + 1
    /\ Opening

\* document click on a card of a gallery row
MobileCardClick(card) ==
    /\ isMobile
    /\ historyDepth < MaxHistory
    /\ ExpandCard(card)
    /\ UNCHANGED <<isMobile, rowScroll, rowSnapNone, snapTimer,
                   pendingScrollRestore, navigated>>
    /\ UNCHANGED <<serverVars, scrollVars, modalOpen, currentSourceImage,
                   flipImage, attached, frames, timers, flipInputs, lastInput,
                   formVars, restVars>>

\* document click on the desktop gallery (modal.ts)
DesktopClick(inColumn, card) ==
    /\ IF isProjectOpen /\ inColumn
       THEN closeProject({}) /\ Closing("closed")
       ELSE /\ card \in Columns
            /\ openProject({}, card)
            /\ Opening
    /\ UNCHANGED <<state, scrollTop, targetIndex, accumulatedDelta,
                   wheelTimeout, sinceWheel, touchStartY>>
    /\ UNCHANGED <<isMobile, activeCard, savedScrollPositions, cardClasses,
                   contentStyle, titleBottom, infoHidden, rowScroll,
                   rowSnapNone, snapTimer, historyDepth, pendingScrollRestore,
                   navigated>>
    /\ UNCHANGED <<serverVars, flipVars, formVars, restVars>>

\* Escape: the keydown handlers of mobileTransition.ts and of modal.ts
EscapeKey ==
    /\ activeCard # "" \/ isProjectOpen
    /\ closeActiveCard
    /\ IF isProjectOpen THEN closeProject({})
       ELSE UNCHANGED <<galleryClasses, indicators, indicatorTimers>>
    /\ Closing("closed")
    /\ UNCHANGED <<state, scrollTop, targetIndex, accumulatedDelta,
                   wheelTimeout, sinceWheel, touchStartY>>
    /\ UNCHANGED <<isMobile, savedScrollPositions, rowScroll, rowSnapNone,
                   snapTimer, historyDepth, pendingScrollRestore, navigated>>
    /\ UNCHANGED <<serverVars, modalOpen, currentSourceImage, flipImage,
                   attached, frames, timers, flipInputs, lastInput, formVars,
                   restVars>>

\* back button: the history entry is popped and popstate is dispatched
BackButton ==
    /\ historyDepth > 0
    /\ historyDepth' = historyDepth - 1
    /\ navigated' = TRUE
    /\ IF isMobile /\ activeCard # ""
       THEN /\ closeActiveCard
            /\ pendingScrollRestore' = savedScrollPositions
            /\ Closing("closed by back")
       ELSE /\ UNCHANGED <<cardClasses, contentStyle, titleBottom, infoHidden,
                           bodyOverflow, activeCard, pendingScrollRestore>>
            /\ OtherInput
    /\ UNCHANGED <<isMobile, savedScrollPositions, rowScroll, rowSnapNone,
                   snapTimer>>
    /\ UNCHANGED <<serverVars, scrollVars, modalOpen, currentSourceImage,
                   flipImage, attached, frames, timers, flipInputs, lastInput,
                   formVars, restVars>>

RestoredScroll(scrollValues) ==
    [i \in DOMAIN Rows |->
        IF i \in DOMAIN scrollValues THEN scrollValues[i] ELSE 0]

\* astro:page-load after a popstate; the router may have replaced the rows
\* (scrollLeft 0) before dispatching it
PageLoad(swapped) ==
    /\ navigated
    /\ navigated' = FALSE
    /\ IF pendingScrollRestore # <<>> /\ isMobile
       THEN /\ rowScroll' = RestoredScroll(pendingScrollRestore)
            /\ rowSnapNone' = TRUE
            /\ snapTimer' = TRUE
            /\ pendingScrollRestore' = <<>>
       ELSE /\ rowScroll' = IF swapped THEN [i \in DOMAIN Rows |-> 0]
                            ELSE rowScroll
            /\ UNCHANGED <<rowSnapNone, snapTimer, pendingScrollRestore>>
    /\ openClose' = IF openClose = "closed by back" THEN "closed" ELSE "other"
    /\ UNCHANGED <<preOpen, isMobile, activeCard, savedScrollPositions,
                   cardClasses, contentStyle, titleBottom, infoHidden,
                   historyDepth>>
    /\ UNCHANGED <<serverVars, scrollVars, flipVars, formVars, restVars>>

SnapTimerFires ==
    /\ snapTimer
    /\ snapTimer' = FALSE
    /\ rowSnapNone' = FALSE
    /\ UNCHANGED <<isMobile, activeCard, savedScrollPositions, cardClasses,
                   contentStyle, titleBottom, infoHidden, rowScroll,
                   historyDepth, pendingScrollRestore, navigated, preOpen,
                   openClose>>
    /\ UNCHANGED <<serverVars, scrollVars, flipVars, formVars, restVars>>

\* the user swipes a gallery row while no card covers it
RowSwipe(i, x) ==
    /\ activeCard = "" /\ ~navigated
    /\ rowScroll[i] # x
    /\ rowScroll' = [rowScroll EXCEPT ![i] = x]
    /\ OtherInput
    /\ UNCHANGED <<isMobile, activeCard, savedScrollPositions, cardClasses,
                   contentStyle, titleBottom, infoHidden, rowSnapNone,
                   snapTimer, historyDepth, pendingScrollRestore, navigated>>
    /\ UNCHANGED <<serverVars, scrollVars, flipVars, formVars, restVars>>

Resize ==
    /\ isMobile' = ~isMobile
    /\ OtherInput
    /\ UNCHANGED <<activeCard, savedScrollPositions, cardClasses, contentStyle,
                   titleBottom, infoHidden, rowScroll, rowSnapNone, snapTimer,
                   historyDepth, pendingScrollRestore, navigated>>
    /\ UNCHANGED <<serverVars, scrollVars, flipVars, formVars, restVars>>

InitMobile ==
    /\ isMobile = TRUE
    /\ activeCard = ""
    /\ savedScrollPositions = <<>>
    /\ cardClasses = [c \in MobileCards |-> {}]
    /\ contentStyle = [c \in MobileCards |-> NoStyle]
    /\ titleBottom = [c \in MobileCards |-> 0]
    /\ infoHidden = FALSE
    /\ rowScroll = [i \in DOMAIN Rows |-> 0]
    /\ rowSnapNone = FALSE
    /\ snapTimer = FALSE
    /\ historyDepth = 0
    /\ pendingScrollRestore = <<>>
    /\ navigated = FALSE
    /\ openClose = "other"
    /\ preOpen = [cardClasses |-> cardClasses, contentStyle |-> contentStyle,
                  titleBottom |-> titleBottom, infoHidden |-> infoHidden,
                  bodyOverflow |-> bodyOverflow, activeCard |-> activeCard,
                  rowScroll |-> rowScroll, galleryClasses |-> galleryClasses]

NextOpenClose ==
    \/ MobileCloseClick
    \/ \E card \in MobileCards : MobileCardClick(card)
    \/ \E inColumn \in BOOLEAN, card \in Columns \cup {"none"} :
          DesktopClick(inColumn, card)
    \/ EscapeKey
    \/ BackButton
    \/ \E swapped \in BOOLEAN : PageLoad(swapped)
    \/ SnapTimerFires
    \/ \E i \in DOMAIN Rows, x \in ScrollLefts : RowSwipe(i, x)
    \/ Resize

\* ===================================================== admin upload form
MaxOutside == 1

NoFile == [name |-> <<>>, type |-> ""]

Files ==
    { [name |-> <<"A", ".", "p">>, type |-> "image/png"],
      [name |-> <<"b", "_", "1", ".", "p">>, type |-> "image/png"],
      [name |-> <<"n", ".", "p">>, type |-> "text/plain"] }

TypedIds == { <<>>, <<"a">>, <<" ", "a", " ">>, <<"c">> }

LowerCase == [ch \in {"A", "B"} |-> IF ch = "A" THEN "a" ELSE "b"]
IsAlnum(ch) == ch \in {"a", "b", "c", "n", "p", "1"}

\* .replace(/\.[^/.]+$/, '')
StripExtension(name) ==
    LET dots == {i \in DOMAIN name : name[i] = "."}
        last == CHOOSE i \in dots : \A j \in dots : j <= i
    IN  IF dots # {} /\ last < Len(name)
           /\ \A j \in (last + 1)..Len(name) : name[j] # "/"
        THEN SubSeq(name, 1, last - 1)
        ELSE name

\* .toLowerCase()
toLowerCase(str) ==
    [i \in DOMAIN str |->
        IF str[i] \in DOMAIN LowerCase THEN LowerCase[str[i]] ELSE str[i]]

\* .replace(/[^a-z0-9]+/g, '-')
RECURSIVE Dashed(_)
Dashed(str) ==
    IF str = <<>> THEN <<>>
    ELSE IF IsAlnum(Head(str)) THEN <<Head(str)>> \o Dashed(Tail(str))
    ELSE IF Len(str) > 1 /\ ~IsAlnum(str[2]) THEN Dashed(Tail(str))
    ELSE <<"-">> \o Dashed(Tail(str))

\* .replace(/^-|-$/g, '')
TrimDashes(str) ==
    LET front == IF str # <<>> /\ Head(str) = "-" THEN Tail(str) ELSE str
    IN  IF front # <<>> /\ front[Len(front)] = "-"
        THEN SubSeq(front, 1, Len(front) - 1)
        ELSE front

suggestedId(file) == TrimDashes(Dashed(toLowerCase(StripExtension(file.name))))

\* String.prototype.trim
RECURSIVE trim(_)
trim(str) ==
    IF str # <<>> /\ Head(str) = " " THEN trim(Tail(str))
    ELSE IF str # <<>> /\ str[Len(str)] = " "
    THEN trim(SubSeq(str, 1, Len(str) - 1))
    ELSE str

IdUsed(value) == trim(value) \in loadedImages

\* validateForm: isValid
isValid(value, file) ==
    trim(value) # <<>> /\ file # NoFile /\ trim(value) \notin loadedImages

Half == [n |-> 1, d |-> 2]

resetUploadForm ==
    /\ currentFile' = NoFile
    /\ focalPoint' = [x |-> Half, y |-> Half]
    /\ focalSetBy' = "reset"
    /\ imageIdInput' = <<>>
    /\ previewAreaHidden' = TRUE

openUploadModal ==
    /\ uploadModalHidden
    /\ resetUploadForm
    /\ saveBtnDisabled' = TRUE
    /\ uploadModalHidden' = FALSE
    /\ UNCHANGED <<loadedImages, storedIds, readerPending, save, sent>>
    /\ UNCHANGED nonFormVars

\* close button, Cancel or a click on the backdrop
closeModals ==
    /\ ~uploadModalHidden
    /\ resetUploadForm
    /\ saveBtnDisabled' = TRUE
    /\ uploadModalHidden' = TRUE
    /\ UNCHANGED <<loadedImages, storedIds, readerPending, save, sent>>
    /\ UNCHANGED nonFormVars

\* a file is chosen or dropped on the upload area
handleFile(file) ==
    /\ ~uploadModalHidden /\ previewAreaHidden /\ ~readerPending
    /\ IF file.type \notin {"image/png"}
       THEN UNCHANGED <<currentFile, imageIdInput, readerPending>>
       ELSE /\ currentFile' = file
            /\ imageIdInput' = suggestedId(file)
            /\ readerPending' = TRUE
    /\ UNCHANGED <<loadedImages, storedIds, saveBtnDisabled, uploadModalHidden,
                   previewAreaHidden, save, focalPoint, focalSetBy, sent>>
    /\ UNCHANGED nonFormVars

\* reader.onload and then previewImage.onload
PreviewLoaded ==
    /\ readerPending
    /\ readerPending' = FALSE
    /\ previewAreaHidden' = FALSE
    /\ focalPoint' = [x |-> Half, y |-> Half]
    /\ focalSetBy' = "reset"
    /\ saveBtnDisabled' = ~isValid(imageIdInput, currentFile)
    /\ UNCHANGED <<loadedImages, storedIds, currentFile, imageIdInput,
                   uploadModalHidden, save, sent>>
    /\ UNCHANGED nonFormVars

\* the user edits the identifier: the input listener runs validateForm
IdInput(value) ==
    /\ ~uploadModalHidden
    /\ value # imageIdInput
    /\ imageIdInput' = value
    /\ saveBtnDisabled' = ~isValid(value, currentFile)
    /\ UNCHANGED <<loadedImages, storedIds, currentFile, uploadModalHidden,
                   previewAreaHidden, readerPending, save, focalPoint,
                   focalSetBy, sent>>
    /\ UNCHANGED nonFormVars

Request(url) == [url |-> url, used |-> IdUsed(imageIdInput)]

\* click on the enabled save button: handleSave up to the upload request
handleSave ==
    /\ ~uploadModalHidden /\ ~saveBtnDisabled
    /\ save.pc = "idle"
    /\ currentFile # NoFile
    /\ saveBtnDisabled' = TRUE
    /\ sent' = sent \cup {Request("/api/upload")}
    /\ save' = [pc |-> "upload", id |-> <<>>, uploadRes |-> "none"]
    /\ UNCHANGED <<loadedImages, storedIds, currentFile, imageIdInput,
                   uploadModalHidden, previewAreaHidden, readerPending,
                   focalPoint, focalSetBy>>
    /\ UNCHANGED nonFormVars

\* catch and finally of handleSave
SaveFailed ==
    /\ saveBtnDisabled' = FALSE
    /\ save' = [save EXCEPT !.pc = "idle", !.id = <<>>]

UploadAssumedOk(ok) == TRUE

\* uploadRes.ok lets handleSave go on
UploadOk(ok) == ok

\* the upload responds; on success the metadata request goes out
UploadResponds(ok) ==
    /\ save.pc = "upload"
    /\ LET uploadRes == IF ok THEN "ok" ELSE "failed"
       IN  IF UploadOk(ok)
           THEN /\ save' = [pc |-> "save", id |-> trim(imageIdInput),
                            uploadRes |-> uploadRes]
                /\ sent' = sent \cup {Request("/api/images/:id")}
                /\ UNCHANGED saveBtnDisabled
           ELSE /\ saveBtnDisabled' = FALSE
                /\ save' = [pc |-> "idle", id |-> <<>>,
                            uploadRes |-> uploadRes]
                /\ UNCHANGED sent
    /\ UNCHANGED <<loadedImages, storedIds, currentFile, imageIdInput,
                   uploadModalHidden, previewAreaHidden, readerPending,
                   focalPoint, focalSetBy>>
    /\ UNCHANGED nonFormVars

\* POST /api/images/:id responds; on success the images are reloaded
SaveResponds(ok) ==
    /\ save.pc = "save"
    /\ ok => save.id # <<>>
    /\ IF ok
       THEN /\ storedIds' = storedIds \cup {save.id}
            /\ save' = [save EXCEPT !.pc = "load"]
            /\ UNCHANGED saveBtnDisabled
       ELSE SaveFailed /\ UNCHANGED storedIds
    /\ UNCHANGED <<loadedImages, currentFile, imageIdInput, uploadModalHidden,
                   previewAreaHidden, readerPending, focalPoint, focalSetBy,
                   sent>>
    /\ UNCHANGED nonFormVars

\* markAsChanged
markAsChanged == hasUnpublishedChanges' = TRUE

\* history for the claims: an image mutation has succeeded
ImageMutated == pendingChange' = TRUE /\ UNCHANGED changedDuringPublish

\* loadImages resolves, then markAsChanged, closeModals and the finally block
LoadResponds ==
    /\ save.pc = "load"
    /\ loadedImages' = storedIds
    /\ resetUploadForm
    /\ uploadModalHidden' = TRUE
    /\ editModalHidden' = TRUE
    /\ SaveFailed
    /\ UNCHANGED <<storedIds, readerPending, sent>>
    /\ UNCHANGED <<editingId, imageFocal, updateBtnDisabled, update,
                   editFocal>>
    /\ markAsChanged
    /\ ImageMutated
    /\ UNCHANGED <<pageProjects, listOrder, reorderCalls, publishBtnDisabled,
                   publish>>
    /\ UNCHANGED nonAdminVars

\* fractions with a positive denominator
Frac(n, d) == [n |-> n, d |-> d]
FracLeq(a, b) == a.n * b.d <= b.n * a.d
FracMin(a, b) == IF FracLeq(a, b) THEN a ELSE b
FracMax(a, b) == IF FracLeq(a, b) THEN b ELSE a

\* the preview image's getBoundingClientRect()
ImageRect == [left |-> 10, top |-> 20, width |-> 2, height |-> 3]

ClickXs == (ImageRect.left - MaxOutside)..
           (ImageRect.left + ImageRect.width + MaxOutside)
ClickYs == (ImageRect.top - MaxOutside)..
           (ImageRect.top + ImageRect.height + MaxOutside)

CappedAbove(v) == FracMin(Frac(1, 1), v)

\* Math.max(0, Math.min(1, v))
Clamped(v) == FracMax(Frac(0, 1), FracMin(Frac(1, 1), v))

\* a click on the preview image
setFocalPoint(clientX, clientY) ==
    /\ ~uploadModalHidden /\ ~previewAreaHidden
    /\ LET rect == ImageRect
           x == Frac(clientX - rect.left, rect.width)
           y == Frac(clientY - rect.top, rect.height)
       IN  focalPoint' = [x |-> Clamped(x), y |-> Clamped(y)]
    /\ focalSetBy' = "click"
    /\ UNCHANGED <<loadedImages, storedIds, currentFile, imageIdInput,
                   saveBtnDisabled, uploadModalHidden, previewAreaHidden,
                   readerPending, save, sent>>
    /\ UNCHANGED nonFormVars

InitForm ==
    /\ loadedImages = {<<"a">>}
    /\ storedIds = {<<"a">>}
    /\ currentFile = NoFile
    /\ imageIdInput = <<>>
    /\ saveBtnDisabled = TRUE
    /\ uploadModalHidden = TRUE
    /\ previewAreaHidden = TRUE
    /\ readerPending = FALSE
    /\ save = [pc |-> "idle", id |-> <<>>, uploadRes |-> "none"]
    /\ focalPoint = [x |-> Half, y |-> Half]
    /\ focalSetBy = "init"
    /\ sent = {}

NextForm ==
    \/ openUploadModal
    \/ closeModals
    \/ \E file \in Files : handleFile(file)
    \/ PreviewLoaded
    \/ \E value \in TypedIds : IdInput(value)
    \/ handleSave
    \/ \E ok \in BOOLEAN : UploadResponds(ok)
    \/ \E ok \in BOOLEAN : SaveResponds(ok)
    \/ LoadResponds
    \/ \E clientX \in ClickXs, clientY \in ClickYs :
          setFocalPoint(clientX, clientY)

\* ===================================================== admin edit modal
\* the images of the grid that the edit modal is opened for
EditIds == {<<"a">>}

NoPoint == [x |-> Frac(0, 0), y |-> Frac(0, 0)]

\* clicks on a preview image: one inside it and one on its edge
PreviewClicks ==
    { [clientX |-> ImageRect.left + 1, clientY |-> ImageRect.top + 1],
      [clientX |-> ImageRect.left, clientY |-> ImageRect.top + ImageRect.height] }

NoUpdate == [pc |-> "idle", id |-> <<>>, focalPoint |-> NoPoint,
             allowed |-> {}]

\* click on the Upload Image button of the page
UploadClick == editModalHidden /\ openUploadModal

\* click on an image card of the grid
openEditModal(id) ==
    /\ uploadModalHidden /\ editModalHidden
    /\ id \in loadedImages
    /\ editingId' = id
    /\ focalPoint' = imageFocal[id]
    /\ focalSetBy' = "edit"
    /\ editModalHidden' = FALSE
    /\ editFocal' = [opened |-> imageFocal[id], clicked |-> NoPoint]
    /\ UNCHANGED <<loadedImages, storedIds, currentFile, imageIdInput,
                   saveBtnDisabled, uploadModalHidden, previewAreaHidden,
                   readerPending, save, sent>>
    /\ UNCHANGED <<imageFocal, updateBtnDisabled, update>>
    /\ UNCHANGED pageVars
    /\ UNCHANGED nonAdminVars

\* a click on the preview image of the edit modal: setFocalPoint
EditPreviewClick(clientX, clientY) ==
    /\ ~editModalHidden
    /\ LET rect == ImageRect
           x == Frac(clientX - rect.left, rect.width)
           y == Frac(clientY - rect.top, rect.height)
           point == [x |-> Clamped(x), y |-> Clamped(y)]
       IN  /\ focalPoint' = point
           /\ editFocal' = [editFocal EXCEPT !.clicked = point]
    /\ focalSetBy' = "click"
    /\ UNCHANGED <<loadedImages, storedIds, currentFile, imageIdInput,
                   saveBtnDisabled, uploadModalHidden, previewAreaHidden,
                   readerPending, save, sent>>
    /\ UNCHANGED <<editModalHidden, editingId, imageFocal, updateBtnDisabled,
                   update>>
    /\ UNCHANGED pageVars
    /\ UNCHANGED nonAdminVars

\* close button, Cancel or backdrop of the edit modal: closeModals
CloseEditModal ==
    /\ ~editModalHidden
    /\ resetUploadForm
    /\ saveBtnDisabled' = TRUE
    /\ uploadModalHidden' = TRUE
    /\ editModalHidden' = TRUE
    /\ UNCHANGED <<loadedImages, storedIds, readerPending, save, sent>>
    /\ UNCHANGED <<editingId, imageFocal, updateBtnDisabled, update,
                   editFocal>>
    /\ UNCHANGED pageVars
    /\ UNCHANGED nonAdminVars

\* click on the enabled Save Changes button: handleUpdate up to its request
handleUpdate ==
    /\ ~editModalHidden /\ ~updateBtnDisabled
    /\ updateBtnDisabled' = TRUE
    /\ update' = [pc |-> "post", id |-> editingId, focalPoint |-> focalPoint,
                  allowed |-> {editFocal.opened, editFocal.clicked}
                                 \ {NoPoint}]
    /\ UNCHANGED <<editModalHidden, editingId, imageFocal, editFocal>>
    /\ UNCHANGED formVars
    /\ UNCHANGED pageVars
    /\ UNCHANGED nonAdminVars

\* POST /api/images/:id of handleUpdate responds; catch and finally on failure
UpdateResponds(ok) ==
    /\ update.pc = "post"
    /\ IF ok
       THEN update' = [update EXCEPT !.pc = "load"] /\ UNCHANGED updateBtnDisabled
       ELSE update' = NoUpdate /\ updateBtnDisabled' = FALSE
    /\ UNCHANGED <<editModalHidden, editingId, imageFocal, editFocal>>
    /\ UNCHANGED formVars
    /\ UNCHANGED pageVars
    /\ UNCHANGED nonAdminVars

\* loadImages of handleUpdate resolves, then markAsChanged, closeModals and
\* the finally block
UpdateLoaded ==
    /\ update.pc = "load"
    /\ loadedImages' = storedIds
    /\ imageFocal' = [imageFocal EXCEPT ![update.id] = update.focalPoint]
    /\ resetUploadForm
    /\ saveBtnDisabled' = TRUE
    /\ uploadModalHidden' = TRUE
    /\ editModalHidden' = TRUE
    /\ updateBtnDisabled' = FALSE
    /\ update' = NoUpdate
    /\ UNCHANGED <<storedIds, readerPending, save, sent>>
    /\ UNCHANGED <<editingId, editFocal>>
    /\ markAsChanged
    /\ ImageMutated
    /\ UNCHANGED <<pageProjects, listOrder, reorderCalls, publishBtnDisabled,
                   publish>>
    /\ UNCHANGED nonAdminVars

InitEdit ==
    /\ editModalHidden = TRUE
    /\ editingId = <<>>
    /\ imageFocal = [id \in EditIds |-> [x |-> Frac(1, 4), y |-> Frac(3, 4)]]
    /\ updateBtnDisabled = FALSE
    /\ update = NoUpdate
    /\ editFocal = [opened |-> NoPoint, clicked |-> NoPoint]

NextEdit ==
    \/ UploadClick
    \/ closeModals
    \/ \E file \in Files : handleFile(file)
    \/ PreviewLoaded
    \/ handleSave
    \/ \E ok \in BOOLEAN : UploadResponds(ok)
    \/ \E ok \in BOOLEAN : SaveResponds(ok)
    \/ LoadResponds
    \/ \E click \in PreviewClicks :
          setFocalPoint(click.clientX, click.clientY)
    \/ \E id \in EditIds : openEditModal(id)
    \/ \E click \in PreviewClicks :
          EditPreviewClick(click.clientX, click.clientY)
    \/ CloseEditModal
    \/ handleUpdate
    \/ \E ok \in BOOLEAN : UpdateResponds(ok)
    \/ UpdateLoaded

\* ============================================== admin projects and publish
\* the residential projects of the admin page
PageProjects == {"p1", "p2"}

\* the cards of a list in some order
CardOrders == {q \in ListsUpTo(PageProjects, Cardinality(PageProjects)) :
                  Range(q) = PageProjects}

\* calls of handleProjectReorder that may be running together
ReorderCallIds == {1, 2}

NoCall == [pc |-> "idle", projectIds |-> <<>>, outcome |-> "none",
           afterPublishStart |-> FALSE]

\* the place of a project in the projects array, as loaded from the server
ArrayIndex(id) == IF id = "p1" THEN 0 ELSE 1

\* renderProjectsList: the cards sorted by rank, equal ranks in array order
renderProjectsList(rank) ==
    CHOOSE q \in CardOrders :
        \A i, j \in DOMAIN q :
            i < j => \/ rank[q[i]] < rank[q[j]]
                     \/ rank[q[i]] = rank[q[j]] /\ ArrayIndex(q[i]) < ArrayIndex(q[j])

\* Sortable's onEnd after a drag: handleProjectReorder up to its fetch
handleProjectReorder(call, order) ==
    /\ reorderCalls[call].pc = "idle"
    /\ listOrder' = order
    /\ reorderCalls' = [reorderCalls EXCEPT ![call] =
          [pc |-> "fetch", projectIds |-> order, outcome |-> "none",
           afterPublishStart |-> publish.pc = "post"]]
    /\ UNCHANGED <<pageProjects, hasUnpublishedChanges, publishBtnDisabled,
                   publish, pendingChange, changedDuringPublish>>
    /\ UNCHANGED <<serverVars, scrollVars, flipVars, mobileVars, formVars,
                   preloadVars, libVars, lightboxVars, editVars>>

FetchOutcomes == {"ok", "error response", "network error"}

\* the fetch of handleProjectReorder settles: it rejects on a network error
\* only, an error response resolves it like a success
ReorderFetchSettles(call, outcome) ==
    /\ reorderCalls[call].pc = "fetch"
    /\ reorderCalls' = [reorderCalls EXCEPT ![call].pc = "idle",
                                            ![call].outcome = outcome]
    /\ IF outcome = "network error"
       THEN /\ listOrder' = renderProjectsList(pageProjects)
            /\ UNCHANGED <<pageProjects, hasUnpublishedChanges>>
       ELSE /\ pageProjects' =
                  [id \in PageProjects |->
                      LET ids == reorderCalls[call].projectIds
                      IN  (CHOOSE k \in DOMAIN ids : ids[k] = id) - 1]
            /\ markAsChanged
            /\ UNCHANGED listOrder
    /\ IF outcome = "ok"
       THEN /\ pendingChange' = TRUE
            /\ changedDuringPublish' =
                  (changedDuringPublish
                      \/ (publish.pc = "post"
                             /\ reorderCalls[call].afterPublishStart))
       ELSE UNCHANGED <<pendingChange, changedDuringPublish>>
    /\ UNCHANGED <<publishBtnDisabled, publish>>
    /\ UNCHANGED <<serverVars, scrollVars, flipVars, mobileVars, formVars,
                   preloadVars, libVars, lightboxVars, editVars>>

\* click on the enabled publish button, confirmed: handlePublish up to its
\* fetch
handlePublish ==
    /\ ~publishBtnDisabled
    /\ publishBtnDisabled' = TRUE
    /\ publish' = [pc |-> "post"]
    /\ changedDuringPublish' = FALSE
    /\ reorderCalls' = [call \in ReorderCallIds |->
                           [reorderCalls[call] EXCEPT
                               !.afterPublishStart = FALSE]]
    /\ UNCHANGED <<pageProjects, listOrder, hasUnpublishedChanges,
                   pendingChange>>
    /\ UNCHANGED <<serverVars, scrollVars, flipVars, mobileVars, formVars,
                   preloadVars, libVars, lightboxVars, editVars>>

\* POST /api/publish settles: markAsPublished on success, the catch block
\* otherwise
PublishSettles(ok) ==
    /\ publish.pc = "post"
    /\ IF ok
       THEN /\ hasUnpublishedChanges' = FALSE
            /\ publish' = [pc |-> "timer"]
            /\ pendingChange' = changedDuringPublish
            /\ UNCHANGED publishBtnDisabled
       ELSE /\ publish' = [pc |-> "idle"]
            /\ publishBtnDisabled' = FALSE
            /\ UNCHANGED <<hasUnpublishedChanges, pendingChange>>
    /\ UNCHANGED <<pageProjects, listOrder, reorderCalls,
                   changedDuringPublish>>
    /\ UNCHANGED <<serverVars, scrollVars, flipVars, mobileVars, formVars,
                   preloadVars, libVars, lightboxVars, editVars>>

\* the timer set after a successful publish re-enables the button
PublishTimerFires ==
    /\ publish.pc = "timer"
    /\ publish' = [pc |-> "idle"]
    /\ publishBtnDisabled' = FALSE
    /\ UNCHANGED <<pageProjects, listOrder, reorderCalls,
                   hasUnpublishedChanges, pendingChange, changedDuringPublish>>
    /\ UNCHANGED <<serverVars, scrollVars, flipVars, mobileVars, formVars,
                   preloadVars, libVars, lightboxVars, editVars>>

InitPage ==
    /\ pageProjects = [id \in PageProjects |-> IF id = "p1" THEN 0 ELSE 1]
    /\ listOrder = <<"p1", "p2">>
    /\ reorderCalls = [call \in ReorderCallIds |-> NoCall]
    /\ hasUnpublishedChanges = FALSE
    /\ publishBtnDisabled = FALSE
    /\ publish = [pc |-> "idle"]
    /\ pendingChange = FALSE
    /\ changedDuringPublish = FALSE

NextPage ==
    \/ \E call \in ReorderCallIds, order \in CardOrders :
          handleProjectReorder(call, order)
    \/ \E call \in ReorderCallIds, outcome \in FetchOutcomes :
          ReorderFetchSettles(call, outcome)
    \/ handlePublish
    \/ \E ok \in BOOLEAN : PublishSettles(ok)
    \/ PublishTimerFires

\* ========================================================== preloading
MaxPreloads == 3

PreloadCards == {"house", "office", "studio"}

\* card.dataset.projectData / projectImages as written by the page
ProjectData ==
    [card \in PreloadCards |->
        IF card = "house" THEN [valid |-> TRUE, images |-> <<"u1", "u2">>]
        ELSE IF card = "office" THEN [valid |-> TRUE, images |-> <<"u2">>]
        ELSE [valid |-> FALSE, images |-> <<>>]]

\* the order of document.querySelectorAll('.project-card')
CardOrder == <<"house", "office", "studio">>

getProjectImages(card) ==
    IF ProjectData[card].valid THEN ProjectData[card].images ELSE <<>>

\* images.forEach(src => preloadImage(src)) on top of the given loads
Preloaded(loads, srcs) ==
    loads \o [i \in DOMAIN srcs |-> [src |-> srcs[i], status |-> "loading"]]

RECURSIVE PreloadedCards(_, _)
PreloadedCards(loads, cards) ==
    IF cards = <<>> THEN loads
    ELSE PreloadedCards(Preloaded(loads, getProjectImages(Head(cards))),
                        Tail(cards))

\* setupCardFadeIn on one card
FadeInLoaded(card) == thumbnails[card] = "complete"

\* setupPreloader: every card's images are preloaded at once, then the
\* fade-in of the cards is set up
setupPreloader ==
    /\ ~preloaderRan
    /\ preloaderRan' = TRUE
    /\ preloads' = PreloadedCards(preloads, CardOrder)
    /\ cardLoaded' = cardLoaded \cup {c \in PreloadCards : FadeInLoaded(c)}
    /\ fadeListeners' = {c \in PreloadCards : ~FadeInLoaded(c)}
    /\ UNCHANGED <<hovered, thumbnails>>
    /\ UNCHANGED nonPreloadVars

\* the intersection observer reports a card within 100px of the viewport
CardIntersects(card) ==
    /\ ProjectData[card].valid
    /\ Len(preloads) + Len(ProjectData[card].images) <= MaxPreloads
    /\ preloads' = Preloaded(preloads, ProjectData[card].images)
    /\ UNCHANGED <<preloaderRan, hovered, thumbnails, fadeListeners,
                   cardLoaded>>
    /\ UNCHANGED nonPreloadVars

\* mouseenter on a card, listened to once
CardMouseEnter(card) ==
    /\ card \notin hovered
    /\ ProjectData[card].valid
    /\ Len(preloads) + Len(ProjectData[card].images) <= MaxPreloads
    /\ hovered' = hovered \cup {card}
    /\ preloads' = Preloaded(preloads, ProjectData[card].images)
    /\ UNCHANGED <<preloaderRan, thumbnails, fadeListeners, cardLoaded>>
    /\ UNCHANGED nonPreloadVars

\* a preload's fetch ends, with the image or with an error
PreloadSettles(i) ==
    /\ i \in DOMAIN preloads
    /\ preloads[i].status = "loading"
    /\ preloads' = [preloads EXCEPT ![i].status = "settled"]
    /\ UNCHANGED <<preloaderRan, hovered, thumbnails, fadeListeners,
                   cardLoaded>>
    /\ UNCHANGED nonPreloadVars

\* a card's thumbnail finishes loading or fails
ThumbnailSettles(card, result) ==
    /\ thumbnails[card] = "loading"
    /\ thumbnails' = [thumbnails EXCEPT ![card] = result]
    /\ cardLoaded' = IF card \in fadeListeners THEN cardLoaded \cup {card}
                     ELSE cardLoaded
    /\ UNCHANGED <<preloads, preloaderRan, hovered, fadeListeners>>
    /\ UNCHANGED nonPreloadVars

PreloadSlots == 1..(MaxPreloads + Len(PreloadedCards(<<>>, CardOrder)))

InitPreload ==
    /\ preloads = <<>>
    /\ preloaderRan = FALSE
    /\ hovered = {}
    /\ thumbnails = [c \in PreloadCards |-> "loading"]
    /\ fadeListeners = {}
    /\ cardLoaded = {}

NextPreload ==
    \/ setupPreloader
    \/ \E card \in PreloadCards : CardIntersects(card)
    \/ \E card \in PreloadCards : CardMouseEnter(card)
    \/ \E i \in PreloadSlots : PreloadSettles(i)
    \/ \E card \in PreloadCards, result \in {"complete", "error"} :
          ThumbnailSettles(card, result)

\* ------------------------------------------------- site: the image library
InitCallIds == 1..MaxInits

NullData == [null |-> TRUE]

NullAlt == "null"

ImageRows == [cloudflare_id : {1}, alt : {NullAlt, "x"}]

\* what the images table can hold when a fetch reads it
ImageTables == UNION {[ids -> ImageRows] : ids \in SUBSET ImageIds}

\* lib/supabase.ts fetchImages: one entry per row, a null alt becomes ''
fetchImages(table) ==
    [null |-> FALSE,
     images |-> [i \in DOMAIN table |->
                   [cloudflareId |-> table[i].cloudflare_id,
                    alt |-> IF table[i].alt = NullAlt THEN ""
                            ELSE table[i].alt]]]

\* !imagesData is true of an empty record as well as of null
EmptyOrNull(data) == data = NullData \/ data.images = <<>>

\* !imagesData: only null is falsy, an object without keys is not
NotInitialized(data) == data = NullData

NoResult == [threw |-> FALSE, image |-> <<>>, has |-> FALSE, ids |-> {}]

Thrown == [NoResult EXCEPT !.threw = TRUE]

ReaderCalled(fn, id, result) ==
    lastCall' = [fn |-> fn, id |-> id, after |-> initialized,
                 result |-> result]

\* initImages up to its await: the fetch starts only when the cache is null
initImages(c) ==
    /\ initCalls[c] = "none"
    /\ initCalls' = [initCalls EXCEPT
                       ![c] = IF imagesData = NullData THEN "fetching"
                              ELSE "resolved"]
    /\ initialized' = (initialized \/ imagesData # NullData)
    /\ UNCHANGED <<imagesData, lastCall>>
    /\ UNCHANGED nonLibVars

\* the fetch of call c ends: with an error fetchImages throws and the
\* assignment never happens, otherwise the cache is assigned
FetchResponds(c, table, error) ==
    /\ initCalls[c] = "fetching"
    /\ IF error
       THEN /\ initCalls' = [initCalls EXCEPT ![c] = "rejected"]
            /\ UNCHANGED <<imagesData, initialized>>
       ELSE /\ initCalls' = [initCalls EXCEPT ![c] = "resolved"]
            /\ imagesData' = fetchImages(table)
            /\ initialized' = TRUE
    /\ UNCHANGED lastCall
    /\ UNCHANGED nonLibVars

getImage(id) ==
    /\ ReaderCalled("getImage", id,
                    IF NotInitialized(imagesData) THEN Thrown
              ELSE [NoResult EXCEPT
                      !.image = IF id \in DOMAIN imagesData.images
                                THEN <<imagesData.images[id]>> ELSE <<>>])
    /\ UNCHANGED <<imagesData, initCalls, initialized>>
    /\ UNCHANGED nonLibVars

hasImage(id) ==
    /\ ReaderCalled("hasImage", id,
              IF NotInitialized(imagesData) THEN Thrown
              ELSE [NoResult EXCEPT
                      !.has = id \in DOMAIN imagesData.images])
    /\ UNCHANGED <<imagesData, initCalls, initialized>>
    /\ UNCHANGED nonLibVars

getAllImageIds ==
    /\ ReaderCalled("getAllImageIds", "",
              IF NotInitialized(imagesData) THEN Thrown
              ELSE [NoResult EXCEPT !.ids = DOMAIN imagesData.images])
    /\ UNCHANGED <<imagesData, initCalls, initialized>>
    /\ UNCHANGED nonLibVars

InitLib ==
    /\ imagesData = NullData
    /\ initCalls = [c \in InitCallIds |-> "none"]
    /\ initialized = FALSE
    /\ lastCall = [fn |-> "none", id |-> "", after |-> FALSE,
                   result |-> NoResult]

NextLib ==
    \/ \E c \in InitCallIds : initImages(c)
    \/ \E c \in InitCallIds, table \in ImageTables, error \in BOOLEAN :
          FetchResponds(c, table, error)
    \/ \E id \in ImageIds : getImage(id)
    \/ \E id \in ImageIds : hasImage(id)
    \/ getAllImageIds

\* ============================================================ lightbox
LightboxCleanup == 300

Panels == {"left", "right"}

\* the img elements of the gallery of each panel, in document order: a
\* thumbnail served by the image host has an asset id and a variant
Thumbnail(id) == [host |-> "imagedelivery.net", id |-> id, variant |-> "w=400"]
OtherSrc(id) == [host |-> "other", id |-> id, variant |-> ""]
PanelGallery ==
    [p \in Panels |-> IF p = "left"
                      THEN <<Thumbnail("g1"), OtherSrc("g2"), Thumbnail("g3")>>
                      ELSE <<Thumbnail("h1")>>]

NoImage == [src |-> [host |-> "", id |-> "", variant |-> ""],
            loaded |-> FALSE, loader |-> FALSE]

PanelClass(p) == IF p = "left" THEN "project-open-left"
                 ELSE "project-open-right"

\* getLightboxUrl: the full-size variant of an image-host URL, any other
\* URL as it is
getLightboxUrl(src) ==
    IF src.host = "imagedelivery.net"
    THEN [src EXCEPT !.variant = "w=2560,q=90,f=auto"]
    ELSE src

updateNavVisibility(index, gallery) ==
    [prev |-> index = 0, next |-> index >= Len(gallery) - 1]

\* showImage(index) on the gallery given; indexes count from 0
showImage(index, gallery) ==
    IF index < 0 \/ index >= Len(gallery)
    THEN UNCHANGED <<currentImageIndex, lightboxImage, lightboxNav>>
    ELSE /\ currentImageIndex' = index
         /\ lightboxImage' = [src |-> getLightboxUrl(gallery[index + 1]),
                              loaded |-> FALSE, loader |-> TRUE]
         /\ lightboxNav' = updateNavVisibility(index, gallery)

navigatePrev ==
    IF currentImageIndex > 0
    THEN showImage(currentImageIndex - 1, currentGalleryImages)
    ELSE UNCHANGED <<currentImageIndex, lightboxImage, lightboxNav>>

navigateNext ==
    IF currentImageIndex < Len(currentGalleryImages) - 1
    THEN showImage(currentImageIndex + 1, currentGalleryImages)
    ELSE UNCHANGED <<currentImageIndex, lightboxImage, lightboxNav>>

\* openLightbox on the i-th image (from 0) of a gallery
openLightbox(gallery, i) ==
    /\ currentGalleryImages' = gallery
    /\ showImage(i, gallery)
    /\ lightboxOpen' = TRUE
    /\ bodyOverflow' = "hidden"
    /\ UNCHANGED cleanupTimers

closeLightbox ==
    /\ lightboxOpen' = FALSE
    /\ bodyOverflow' = ""
    /\ cleanupTimers' = cleanupTimers \cup {LightboxCleanup}
    /\ UNCHANGED <<currentGalleryImages, currentImageIndex, lightboxImage,
                   lightboxNav>>

\* document click on an image of the gallery of an open panel; the open
\* lightbox covers the page
GalleryImageClick(p, i) ==
    /\ ~lightboxOpen
    /\ PanelClass(p) \in galleryClasses
    /\ i \in 0..(Len(PanelGallery[p]) - 1)
    /\ openLightbox(PanelGallery[p], i)
    /\ UNCHANGED nonLightboxVars

\* click on the prev or next button, which is not hidden
LightboxNavClick(dir) ==
    /\ lightboxOpen /\ ~lightboxNav[dir]
    /\ IF dir = "prev" THEN navigatePrev ELSE navigateNext
    /\ UNCHANGED <<lightboxOpen, currentGalleryImages, cleanupTimers,
                   bodyOverflow>>
    /\ UNCHANGED nonLightboxVars

\* ArrowLeft or ArrowRight, handled while the lightbox is open
LightboxArrowKey(key) ==
    /\ IF lightboxOpen
       THEN IF key = "ArrowLeft" THEN navigatePrev ELSE navigateNext
       ELSE UNCHANGED <<currentImageIndex, lightboxImage, lightboxNav>>
    /\ UNCHANGED <<lightboxOpen, currentGalleryImages, cleanupTimers,
                   bodyOverflow>>
    /\ UNCHANGED nonLightboxVars

\* close button, or click on the backdrop
LightboxCloseClick ==
    /\ lightboxOpen
    /\ closeLightbox
    /\ UNCHANGED nonLightboxVars

\* the full-size image has loaded
LightboxImageLoads ==
    /\ lightboxImage.src.host # "" /\ ~lightboxImage.loaded
    /\ lightboxImage' = [lightboxImage EXCEPT !.loaded = TRUE,
                                              !.loader = FALSE]
    /\ UNCHANGED <<lightboxOpen, currentGalleryImages, currentImageIndex,
                   lightboxNav, cleanupTimers, bodyOverflow>>
    /\ UNCHANGED nonLightboxVars

\* the timer of closeLightbox
CleanupTimerFires ==
    /\ 0 \in cleanupTimers
    /\ cleanupTimers' = cleanupTimers \ {0}
    /\ lightboxImage' = NoImage
    /\ currentGalleryImages' = <<>>
    /\ currentImageIndex' = 0
    /\ UNCHANGED <<lightboxOpen, lightboxNav, bodyOverflow>>
    /\ UNCHANGED nonLightboxVars

\* the two keydown listeners of the document, in the order they were added
LightboxThenProject == <<"lightbox", "project">>

KeydownListeners == <<"project", "lightbox">>

\* what one listener makes of Escape: the project listener closes the
\* panel unless the lightbox is open, the lightbox listener closes the
\* lightbox
EscapeListener(name, st) ==
    IF name = "project"
    THEN IF st.classes # {} /\ ~st.open THEN [st EXCEPT !.classes = {}]
         ELSE st
    ELSE IF st.open THEN [st EXCEPT !.open = FALSE] ELSE st

AfterEscape ==
    EscapeListener(KeydownListeners[2],
        EscapeListener(KeydownListeners[1],
            [classes |-> galleryClasses, open |-> lightboxOpen]))

\* Escape pressed: both listeners run
EscapeKeyDown ==
    /\ IF AfterEscape.classes # galleryClasses
       THEN closeProject(PanelColumns)
       ELSE UNCHANGED <<galleryClasses, indicators, indicatorTimers>>
    /\ IF AfterEscape.open # lightboxOpen
       THEN closeLightbox
       ELSE UNCHANGED <<lightboxVars, bodyOverflow>>
    /\ UNCHANGED <<state, scrollTop, targetIndex, accumulatedDelta,
                   wheelTimeout, sinceWheel, touchStartY>>
    /\ UNCHANGED <<serverVars, mobileVars, formVars, preloadVars, libVars,
                   editVars, pageVars,                   modalOpen, currentSourceImage, flipImage, attached, frames,
                   timers, flipInputs, lastInput>>

\* a click on the page under the lightbox, which the open lightbox covers
PageClick(inColumn, card) ==
    /\ ~lightboxOpen
    /\ ProjectClick(PanelColumns, inColumn, card)

\* time passes, up to the next timer of the page
PageDelay(d) ==
    /\ d > 0
    /\ PendingTimers \cup cleanupTimers # {}
    /\ \A t \in PendingTimers \cup cleanupTimers : t >= d
    /\ cleanupTimers' = {t - d : t \in cleanupTimers}
    /\ indicatorTimers' = [c \in Columns |->
          {t - d : t \in indicatorTimers[c]}]
    /\ UNCHANGED <<lightboxOpen, currentGalleryImages, currentImageIndex,
                   lightboxImage, lightboxNav, bodyOverflow>>
    /\ UNCHANGED <<state, scrollTop, targetIndex, indicators, accumulatedDelta,
                   wheelTimeout, sinceWheel, touchStartY, galleryClasses>>
    /\ UNCHANGED <<serverVars, mobileVars, formVars, preloadVars, libVars,
                   editVars, pageVars,                   modalOpen, currentSourceImage, flipImage, attached, frames,
                   timers, flipInputs, lastInput>>

InitLightbox ==
    /\ lightboxOpen = FALSE
    /\ currentGalleryImages = <<>>
    /\ currentImageIndex = 0
    /\ lightboxImage = NoImage
    /\ lightboxNav = [prev |-> FALSE, next |-> FALSE]
    /\ cleanupTimers = {}

LightboxGaps == {100}

NextLightbox ==
    \/ \E p \in Panels, i \in 0..2 : GalleryImageClick(p, i)
    \/ \E dir \in {"prev", "next"} : LightboxNavClick(dir)
    \/ \E key \in {"ArrowLeft", "ArrowRight"} : LightboxArrowKey(key)
    \/ LightboxCloseClick
    \/ LightboxImageLoads
    \/ CleanupTimerFires
    \/ EscapeKeyDown
    \/ \E inColumn \in BOOLEAN, card \in Columns \cup {"none"} :
          PageClick(inColumn, card)
    \/ \E c \in PanelColumns : IndicatorTimerFires(c)
    \/ \E d \in LightboxGaps \cup {LightboxCleanup, PROJECT_SLIDE_DURATION} :
          PageDelay(d)

\* --------------------------------------- lightbox over the mobile cards
\* the img elements of the expanded gallery of each mobile card
CardGallery ==
    [c \in MobileCards |-> IF c = "house"
                           THEN <<Thumbnail("m1"), Thumbnail("m2")>>
                           ELSE <<Thumbnail("m3")>>]

\* a tap on the page under the lightbox, which the open lightbox covers
CardTap(card) == ~lightboxOpen /\ MobileCardClick(card)

CloseTap == ~lightboxOpen /\ MobileCloseClick

\* a tap on an image of the gallery of the expanded card: the click
\* listener of the card controller takes it for a tap on the card, the
\* click listener of the lightbox opens the lightbox
ExpandedGalleryClick(card, i) ==
    /\ ~lightboxOpen
    /\ activeCard = card /\ "expanded" \in cardClasses[card]
    /\ i \in 0..(Len(CardGallery[card]) - 1)
    /\ historyDepth < MaxHistory
    /\ IF isMobile THEN ExpandCard(card)
       ELSE UNCHANGED <<cardClasses, contentStyle, titleBottom, infoHidden,
                        activeCard, savedScrollPositions, historyDepth,
                        preOpen, openClose>>
    /\ openLightbox(CardGallery[card], i)
    /\ UNCHANGED <<isMobile, rowScroll, rowSnapNone, snapTimer,
                   pendingScrollRestore, navigated>>
    /\ UNCHANGED <<serverVars, scrollVars, formVars, preloadVars, libVars,
                   editVars, pageVars,                   modalOpen, currentSourceImage, flipImage, attached, frames,
                   timers, flipInputs, lastInput>>

\* Escape: the keydown listener of the card controller and the one of the
\* lightbox
MobileEscapeKey ==
    /\ activeCard # "" \/ lightboxOpen
    /\ IF activeCard # "" THEN closeActiveCard
       ELSE UNCHANGED <<cardClasses, contentStyle, titleBottom, infoHidden,
                        activeCard>>
    /\ IF lightboxOpen THEN closeLightbox ELSE UNCHANGED lightboxVars
    /\ IF activeCard # "" THEN Closing("closed") ELSE OtherInput
    /\ UNCHANGED <<isMobile, savedScrollPositions, rowScroll, rowSnapNone,
                   snapTimer, historyDepth, pendingScrollRestore, navigated>>
    /\ UNCHANGED <<serverVars, scrollVars, formVars, preloadVars, libVars,
                   editVars, pageVars,                   modalOpen, currentSourceImage, flipImage, attached, frames,
                   timers, flipInputs, lastInput>>

NextMobile ==
    \/ \E card \in MobileCards : CardTap(card)
    \/ CloseTap
    \/ \E card \in MobileCards, i \in 0..1 : ExpandedGalleryClick(card, i)
    \/ \E key \in {"ArrowLeft", "ArrowRight"} : LightboxArrowKey(key)
    \/ LightboxCloseClick
    \/ CleanupTimerFires
    \/ MobileEscapeKey
    \/ BackButton
    \/ \E swapped \in BOOLEAN : PageLoad(swapped)
    \/ SnapTimerFires
    \/ Resize
    \/ \E d \in {LightboxCleanup} : PageDelay(d)

\* ------------------------------------------------------------ specifications
InitServer ==
    /\ images = [i \in {"a"} |-> imageDataToRow(1, "")]
    /\ projects = [p \in ProjectIds |->
                     IF p = "p3"
                     THEN [category |-> "commercial", rank |-> 0,
                           title |-> "t3", thumbnail |-> NullId,
                           images |-> <<>>]
                     ELSE [category |-> "residential",
                           rank |-> IF p = "p1" THEN 0 ELSE 1, title |-> p,
                           thumbnail |-> IF p = "p1" THEN "a" ELSE NullId,
                           images |-> IF p = "p1" THEN <<"a">> ELSE <<>>]]
    /\ remote = {1}
    /\ issued = {1}
    /\ reqs = [r \in Reqs |-> NoReq]

Init == InitServer /\ InitScroll /\ InitFlip /\ InitMobile /\ InitForm
        /\ InitPreload /\ InitLib /\ InitLightbox /\ InitEdit
        /\ InitPage

NextImages ==
    \/ \E r \in Reqs : UploadStart(r)
    \/ \E r \in Reqs : UploadCf(r)
    \/ \E r \in Reqs : SaveImageStart(r)
    \/ \E r \in Reqs : SaveImageDb(r)
    \/ \E r \in Reqs : DeleteImageStart(r)
    \/ \E r \in Reqs : DeleteImageFetch(r)
    \/ \E r \in Reqs : DeleteImageCf(r)
    \/ \E r \in Reqs : DeleteImageCheck(r)
    \/ \E r \in Reqs : DeleteImageDb(r)

NextProjects ==
    \/ \E r \in Reqs : ReorderStart(r)
    \/ \E r \in Reqs : ReorderUpdate(r)
    \/ \E r \in Reqs : ReorderRespond(r)

SpecImages == Init /\ [][NextImages]_vars

SpecProjects == Init /\ [][NextProjects]_vars

NextProjectCrud ==
    \/ \E r \in Reqs : CreateProjectStart(r)
    \/ \E r \in Reqs : CreateProjectCheck(r)
    \/ \E r \in Reqs : CreateProjectInsert(r)
    \/ \E r \in Reqs : UpdateProjectStart(r)
    \/ \E r \in Reqs : UpdateProjectDb(r)
    \/ \E r \in Reqs : DeleteProjectStart(r)
    \/ \E r \in Reqs : DeleteProjectDb(r)

SpecProjectCrud == Init /\ [][NextProjectCrud]_vars

\* one image request and one project request at a time
ImageReqs == {1}
ProjectReqs == {2}

NextRecords ==
    \/ \E r \in ImageReqs : SaveImageStart(r)
    \/ \E r \in ImageReqs : SaveImageDb(r)
    \/ \E r \in ImageReqs : DeleteImageStart(r)
    \/ \E r \in ImageReqs : DeleteImageFetch(r)
    \/ \E r \in ImageReqs : DeleteImageCf(r)
    \/ \E r \in ImageReqs : DeleteImageCheck(r)
    \/ \E r \in ImageReqs : DeleteImageDb(r)
    \/ \E r \in ProjectReqs : CreateProjectStart(r)
    \/ \E r \in ProjectReqs : CreateProjectCheck(r)
    \/ \E r \in ProjectReqs : CreateProjectInsert(r)
    \/ \E r \in ProjectReqs : UpdateProjectStart(r)
    \/ \E r \in ProjectReqs : UpdateProjectDb(r)
    \/ \E r \in ProjectReqs : DeleteProjectStart(r)
    \/ \E r \in ProjectReqs : DeleteProjectDb(r)

SpecRecords == Init /\ [][NextRecords]_vars

SpecScroll == Init /\ [][NextScroll]_vars

SpecColumns == Init /\ [][NextColumns]_vars

SpecWheel == Init /\ [][NextWheel]_vars

SpecPanels == Init /\ [][NextPanels]_vars

\* animation frames keep being delivered, time passes and due timers fire
FairScroll ==
    /\ \A c \in PanelColumns : WF_vars(AnimateScroll(c))
    /\ \A c \in PanelColumns : WF_vars(IndicatorTimerFires(c))
    /\ WF_vars(\E d \in FrameGaps \cup PendingTimers : Delay(d))

SpecScrollLive == Init /\ [][NextAnimation]_vars /\ FairScroll

SpecFlip == Init /\ [][NextFlip]_vars

SpecOpenClose == Init /\ [][NextOpenClose]_vars

SpecForm == Init /\ [][NextForm]_vars

SpecPreload == Init /\ [][NextPreload]_vars

SpecLib == Init /\ [][NextLib]_vars

SpecLightbox == Init /\ [][NextLightbox]_vars

SpecMobile == Init /\ [][NextMobile]_vars

SpecEdit == Init /\ [][NextEdit]_vars

SpecPage == Init /\ [][NextPage]_vars

\* =========================================================== claims
StepOf(r) == reqs'[r] # reqs[r]

\* C1: in DELETE /api/images/:id, when the image host reports the deletion as
\* unsuccessful the handler answers 500 and leaves the image table as it is,
\* and a row leaves the image table only in the database step of a delete
\* request for that id whose remote deletion the image host has confirmed.
C1_DeleteOnlyAfterConfirmed ==
    [][ /\ \A r \in Reqs :
              (/\ reqs[r].op = "deleteImage" /\ reqs[r].pc = "cfData"
               /\ ~reqs[r].cfSuccess /\ StepOf(r))
              => (/\ reqs'[r].pc = "done" /\ reqs'[r].status = 500
                  /\ images' = images)
        /\ \A i \in DOMAIN images \ DOMAIN images' :
              \E r \in Reqs :
                  /\ reqs[r].op = "deleteImage" /\ reqs[r].pc = "db"
                  /\ reqs[r].id = i /\ reqs[r].cfSuccess /\ StepOf(r)
      ]_vars

C1_Witness ==
    \E r \in Reqs :
        /\ reqs[r].op = "deleteImage" /\ reqs[r].pc = "done"
        /\ reqs[r].status = 500 /\ ~reqs[r].cfSuccess
        /\ reqs[r].id \in DOMAIN images

\* C2: once every request has been answered, every row of the image table
\* references an asset that exists on the image host.
C2_NoDanglingReference ==
    (\A r \in Reqs : Free(r))
    => \A i \in DOMAIN images : images[i].cloudflare_id \in remote

IsCategoryList(ids, c) ==
    Range(ids) = {p \in DOMAIN projects : projects[p].category = c}

\* C5: when PUT /api/projects/reorder answers success for a category and the
\* list of that category's project ids, the project at position i of the list
\* has rank i (positions counted from 0).
C5_ReorderRanksFollowList ==
    [][ \A r \in Reqs :
          (/\ reqs[r].op = "reorder" /\ reqs[r].pc = "updates"
           /\ reqs'[r].pc = "done" /\ reqs'[r].status = 200
           /\ IsCategoryList(reqs[r].ids, reqs[r].category))
          => \A k \in DOMAIN reqs[r].ids :
                 projects'[reqs[r].ids[k]].rank = k - 1
      ]_vars

\* C6: a step of PUT /api/projects/reorder for category c changes no row of
\* another category, also when that row's id is in the submitted list, and
\* changes no column other than rank.
C6_ReorderFrame ==
    [][ \A r \in Reqs :
          (reqs[r].op = "reorder" /\ StepOf(r))
          => /\ DOMAIN projects' = DOMAIN projects
             /\ \A p \in DOMAIN projects :
                   /\ projects[p].category # reqs[r].category
                         => projects'[p] = projects[p]
                   /\ projects'[p] =
                         [projects[p] EXCEPT !.rank = projects'[p].rank]
      ]_vars

C6_Witness ==
    \E r \in Reqs :
        /\ reqs[r].op = "reorder" /\ reqs[r].pc = "updates"
        /\ ~reqs[r].dbError
        /\ \E k \in DOMAIN reqs[r].ids \ reqs[r].todo :
              /\ projects[reqs[r].ids[k]].category # reqs[r].category
              /\ projects[reqs[r].ids[k]].rank # k - 1
        /\ \E k \in DOMAIN reqs[r].ids \ reqs[r].todo :
              /\ projects[reqs[r].ids[k]].category = reqs[r].category
              /\ projects[reqs[r].ids[k]].rank = k - 1

\* an input of column c that asks scrollToIndex for index -1 or for index n
RequestsOutside(c) ==
    LET outside(delta) ==
            state[c].currentIndex + delta \notin 0..(CardCount[c] - 1)
    IN  \/ \E key \in Keys :
              /\ KeyDown(c, key)
              /\ outside(IF key = "ArrowDown" THEN 1 ELSE -1)
        \/ \E y \in TouchYs :
              /\ TouchEnd(c, y)
              /\ Abs(touchStartY[c] - y) > TouchThreshold
              /\ outside(IF touchStartY[c] - y > 0 THEN 1 ELSE -1)
        \/ /\ WheelTimerFires(c)
           /\ Abs(accumulatedDelta[c]) > WheelThreshold
           /\ outside(IF accumulatedDelta[c] > 0 THEN 1 ELSE -1)
        \/ \E dir \in {"up", "down"} :
              /\ IndicatorClick(c, dir)
              /\ outside(IF dir = "up" THEN -1 ELSE 1)

\* C3: in every column currentIndex stays within 0..n-1, every animation
\* that starts targets (clamped index) x (card height) with the clamped index
\* within 0..n-1, and an input asking for index -1 or n starts no animation
\* and leaves the scroll state, the position and the indicators as they were.
C3_IndexWithinCards ==
    [][ \A c \in Columns :
          /\ state'[c].currentIndex \in 0..(CardCount[c] - 1)
          /\ (state'[c].isScrolling /\ ~state[c].isScrolling)
                => /\ targetIndex'[c] \in 0..(CardCount[c] - 1)
                   /\ state'[c].targetPosition = targetIndex'[c] * getCardHeight
          /\ RequestsOutside(c)
                => UNCHANGED <<state, scrollTop, targetIndex, indicators>>
      ]_vars

C3_Witness ==
    \E c \in Columns :
        /\ ~state[c].isScrolling
        /\ state[c].currentIndex = CardCount[c] - 1
        /\ scrollTop[c] = (CardCount[c] - 1) * getCardHeight
        /\ wheelTimeout[c] = 0
        /\ accumulatedDelta[c] > WheelThreshold

\* C4: while a column is animating no step changes the animation's start
\* position, start time, target position or target index, no wheel timer is
\* armed and nothing is added to the wheel accumulator; currentIndex changes
\* only when the animation completes, to the target of the request that
\* started it.
C4_SingleFlight ==
    [][ \A c \in Columns :
          state[c].isScrolling
          => /\ state'[c].startPosition = state[c].startPosition
             /\ state'[c].targetPosition = state[c].targetPosition
             /\ state'[c].elapsed >= state[c].elapsed
             /\ targetIndex'[c] = targetIndex[c]
             /\ wheelTimeout'[c] <= wheelTimeout[c]
             /\ accumulatedDelta'[c] \in {accumulatedDelta[c], 0}
             /\ state'[c].currentIndex # state[c].currentIndex
                   => /\ ~state'[c].isScrolling
                      /\ state'[c].currentIndex = targetIndex[c]
                      /\ scrollTop'[c] = state[c].targetPosition
      ]_vars

C4_Witness ==
    \E c \in Columns :
        /\ state[c].isScrolling
        /\ state[c].elapsed > 0 /\ state[c].elapsed < SCROLL_DURATION
        /\ scrollTop[c] > state[c].startPosition
        /\ scrollTop[c] < state[c].targetPosition
        /\ wheelTimeout[c] = 0
        /\ Abs(accumulatedDelta[c]) > WheelThreshold

FlipPhase ==
    IF Settled THEN (IF modalOpen THEN "open" ELSE "closed")
    ELSE (IF modalOpen THEN "opening" ELSE "closing")

C8_CloseRestoresPreOpen ==
    openClose \in {"closed", "closed by back"} => Listed = preOpen

NothingOpen(st) == st.activeCard = "" /\ st.galleryClasses = {}

\* C8 amended: the same, for a project opened while no project was open.
C8_CloseRestoresClosedPage ==
    (openClose \in {"closed", "closed by back"} /\ NothingOpen(preOpen))
    => Listed = preOpen

C8_Witness ==
    /\ openClose = "closed" /\ NothingOpen(preOpen)
    /\ rowSnapNone
    /\ \E i \in DOMAIN Rows : rowScroll[i] # 0

\* C9: no request of the upload form, neither to /api/upload nor to
\* /api/images/:id, is sent while the entered identifier is the key of an
\* existing image.
C9_NoRequestWithUsedId == \A request \in sent : ~request.used

InUnit(v) == 0 <= v.n /\ v.n <= v.d

\* C10: after a click handled by setFocalPoint, inside or outside the image
\* rectangle, focalPoint.x and focalPoint.y are within [0,1].
C10_FocalPointInUnitSquare ==
    focalSetBy = "click" => InUnit(focalPoint.x) /\ InUnit(focalPoint.y)

C10_Witness ==
    /\ focalSetBy = "click"
    /\ focalPoint.x = Frac(0, 1)
    /\ focalPoint.y = Frac(1, 1)

InFlight == {i \in DOMAIN preloads : preloads[i].status = "loading"}

\* C11: at no time is more than one preload fetch in flight (and so no
\* image is started while another one is still waiting or loading).
C11_OnePreloadInFlight == Cardinality(InFlight) <= 1

\* C12: each image URL is preloaded at most once per page.
C12_PreloadedOncePerUrl ==
    \A i, j \in DOMAIN preloads : preloads[i].src = preloads[j].src => i = j

\* C13: handleSave sends POST /api/images/:id only in answer to a
\* successful upload response; when the upload fails, handleSave ends with
\* no metadata request sent and the image lists unchanged.
C13_SaveOnlyAfterUpload ==
    [][/\ (save'.pc = "save" /\ save.pc # "save")
          => (save.pc = "upload" /\ save'.uploadRes = "ok")
       /\ (save.pc = "upload" /\ save'.uploadRes = "failed")
          => /\ save'.pc = "idle"
             /\ UNCHANGED <<sent, loadedImages, storedIds>>]_vars

C13_Witness ==
    /\ save.pc = "idle" /\ save.uploadRes = "failed"
    /\ sent # {}
    /\ \A request \in sent : request.url = "/api/upload"

\* C14: a handler one of whose database writes has failed answers 500, and
\* not success; in particular PUT /api/projects/reorder after a failed rank
\* update.
C14_FailedWriteAnswers500 ==
    [][\A r \in Reqs :
          (reqs[r].dbError /\ StepOf(r) /\ reqs'[r].pc = "done")
          => reqs'[r].status = 500]_vars

\* C17: no request makes more than one call to the image host, nor more
\* than one call to the database.
C17_OneCallEach ==
    \A r \in Reqs : reqs[r].cfCalls <= 1 /\ reqs[r].dbCalls <= 1

\* C15: a PUT or DELETE request for a project id that does not exist, and
\* a DELETE request for an image id that does not exist, is answered 404 by
\* its database step (500 is let through, for a database call that fails),
\* which changes no record, and the request makes no call to the image host.
C15_MissingIdAnswers404 ==
    [][\A r \in Reqs :
          (/\ StepOf(r)
           /\ \/ /\ reqs[r].op \in {"updateProject", "deleteProject"}
                 /\ reqs[r].pc = "db"
                 /\ reqs[r].id \notin DOMAIN projects
              \/ /\ reqs[r].op = "deleteImage" /\ reqs[r].pc = "fetch"
                 /\ reqs[r].id \notin DOMAIN images)
          => /\ reqs'[r].pc = "done" /\ reqs'[r].status \in {404, 500}
             /\ reqs'[r].cfCalls = 0
             /\ UNCHANGED <<images, projects, remote>>]_vars

CreateStep(r) ==
    reqs[r].op = "createProject" /\ StepOf(r) /\ reqs'[r].pc = "done"

\* C16 as stated: a POST /api/projects whose id exists when the request is
\* answered is answered 400 and changes nothing; a create is answered with
\* success only when no record has its id, and then exactly the submitted
\* record is added.
C16_ExistingIdAnswers400 ==
    [][\A r \in Reqs : CreateStep(r) =>
          /\ reqs[r].id \in DOMAIN projects
                => reqs'[r].status = 400 /\ projects' = projects
          /\ reqs'[r].status = 200
                => /\ reqs[r].id \notin DOMAIN projects
                   /\ projects' = Upsert(projects, reqs[r].id,
                                         projectDataToRow(reqs[r]))]_vars

\* C16 amended: a POST /api/projects whose id exists when the request is
\* answered is never answered with success and changes nothing: it is
\* answered 400 when the lookup finds the record and 500 otherwise; a
\* create is answered with success only when no record has its id, and then
\* exactly the submitted record is added, so of two overlapping creates of
\* one id at most one succeeds.
C16_ExistingIdNeverCreated ==
    [][\A r \in Reqs : CreateStep(r) =>
          /\ reqs[r].id \in DOMAIN projects
                => /\ reqs'[r].status = IF reqs[r].pc = "check" THEN 400
                                        ELSE 500
                   /\ projects' = projects
          /\ reqs'[r].status = 200
                => /\ reqs[r].id \notin DOMAIN projects
                   /\ projects' = Upsert(projects, reqs[r].id,
                                         projectDataToRow(reqs[r]))]_vars

\* two creates of one id that both passed the lookup: one was answered
\* with success, the other 500, and the record is the first one's
C16_Witness ==
    /\ \A r \in Reqs : /\ reqs[r].op = "createProject" /\ reqs[r].pc = "done"
                       /\ reqs[r].id = "p4" /\ reqs[r].dbCalls = 2
    /\ reqs[1].status = 200 /\ reqs[2].status = 500
    /\ "p4" \in DOMAIN projects

ScrollOf(c) ==
    <<state[c].isScrolling, state[c].currentIndex, state[c].startPosition,
      state[c].targetPosition, targetIndex[c], scrollTop[c]>>

\* C19: a step that starts or advances the scrolling of one column leaves
\* the other column's currentIndex, isScrolling flag, animation and scroll
\* position as they were, and while one column is animating a key press in
\* the other, idle, column still starts that column's animation.
C19_ColumnsIndependent ==
    /\ [][\A c \in Columns : \A o \in Columns \ {c} :
            ScrollOf(c)' # ScrollOf(c) => ScrollOf(o)' = ScrollOf(o)]_vars
    /\ [](\A c \in Columns : \A o \in Columns \ {c} :
            (state[c].isScrolling /\ ~state[o].isScrolling
             /\ state[o].currentIndex < CardCount[o] - 1)
            => ENABLED (KeyDown(o, "ArrowDown") /\ state'[o].isScrolling))

\* both columns animating at once, at different points of their animations
C19_Witness ==
    /\ \A c \in Columns : state[c].isScrolling
    /\ state["left"].elapsed # state["right"].elapsed
    /\ scrollTop["left"] # scrollTop["right"]

\* C20: getImage, hasImage and getAllImageIds throw 'Images not initialized'
\* whenever they are called before any initImages call has completed
\* successfully, and never when called after one has; the cache is null
\* exactly until then.
C20_ThrowsUntilInitialized ==
    /\ initialized <=> imagesData # NullData
    /\ lastCall.fn # "none" => (lastCall.result.threw <=> ~lastCall.after)

\* a reader called after an initImages that fetched an empty table, while
\* another initImages call has failed
C20_Witness ==
    /\ lastCall.fn = "getAllImageIds" /\ lastCall.after
    /\ lastCall.result.ids = {}
    /\ \E c \in InitCallIds : initCalls[c] = "rejected"

\* C21: while a column's own project panel is open no step changes that
\* column's scroll position or its currentIndex, also when the panel was
\* opened while an animation of the column was running.
C21_OpenPanelStopsScroll ==
    [][\A c \in Columns :
          isScrollDisabled(c)
          => /\ scrollTop'[c] = scrollTop[c]
             /\ state'[c].currentIndex = state[c].currentIndex]_vars

\* C22: an indicator of a column is shown (opacity 1, pointer events on)
\* only while the column is neither animating nor scroll-disabled, and then
\* only in a direction that has a card: up with currentIndex > 0, down with
\* currentIndex < n - 1.
C22_IndicatorsOnlyWhenIdle ==
    \A c \in PanelColumns :
        /\ (indicators[c].up \/ indicators[c].down)
              => ~state[c].isScrolling /\ ~isScrollDisabled(c)
        /\ indicators[c].up => state[c].currentIndex > 0
        /\ indicators[c].down => state[c].currentIndex < CardCount[c] - 1

\* C23: every scroll animation that starts completes: isScrolling returns to
\* false with currentIndex at the target index the animation started with
\* and the scroll position at target index x card height; until then no
\* step ends the animation anywhere else or gives it another target.
C23_AnimationCompletes ==
    /\ \A c \in PanelColumns : \A k \in 0..(CardCount[c] - 1) :
          (state[c].isScrolling /\ targetIndex[c] = k)
          ~> (/\ ~state[c].isScrolling
              /\ state[c].currentIndex = k
              /\ scrollTop[c] = k * getCardHeight)
    /\ [][\A c \in PanelColumns :
            state[c].isScrolling
            => /\ targetIndex'[c] = targetIndex[c]
               /\ state'[c].isScrolling
                     \/ (/\ state'[c].currentIndex = targetIndex[c]
                         /\ scrollTop'[c] = targetIndex[c] * getCardHeight)
       ]_vars

\* an animation has completed at the last card while the column's own
\* panel is open
C23_Witness ==
    \E c \in PanelColumns :
        /\ ~state[c].isScrolling
        /\ state[c].currentIndex = CardCount[c] - 1
        /\ scrollTop[c] = (CardCount[c] - 1) * getCardHeight
        /\ isScrollDisabled(c)

\* the wheel timer of column c fires and its scrollToIndex starts an animation
WheelNavigates(c) ==
    WheelTimerFires(c) /\ state'[c].isScrolling /\ ~state[c].isScrolling

WheelDebounce(c) ==
    /\ (\E deltaY \in WheelDeltas : Wheel(c, deltaY))
          => UNCHANGED <<state, scrollTop, targetIndex>>
    /\ WheelTimerFires(c)
          => accumulatedDelta'[c] = 0 /\ wheelTimeout'[c] = -1
    /\ WheelNavigates(c)
          => /\ Abs(accumulatedDelta[c]) > WheelThreshold
             /\ targetIndex'[c] = state[c].currentIndex +
                    (IF accumulatedDelta[c] > 0 THEN 1 ELSE -1)

C25_OneCloneAttached ==
    /\ Cardinality(attached) <= 1
    /\ Settled => attached = {}

\* C26: whenever the modal has the open class, body scrolling is locked
\* (overflow hidden) and currentSourceImage is set.
C26_OpenModalLocksBody ==
    modalOpen => bodyOverflow = "hidden" /\ currentSourceImage # ""

\* C27: whenever the lightbox is open, currentGalleryImages is non-empty and
\* currentImageIndex is an index of it, and navigatePrev at index 0 and
\* navigateNext at the last index change nothing.
C27_OpenLightboxHasImage ==
    /\ [](lightboxOpen
          => /\ currentGalleryImages # <<>>
             /\ currentImageIndex \in 0..(Len(currentGalleryImages) - 1))
    /\ [][/\ (LightboxArrowKey("ArrowLeft") /\ currentImageIndex = 0)
             => UNCHANGED vars
          /\ (/\ LightboxArrowKey("ArrowRight")
              /\ currentImageIndex = Len(currentGalleryImages) - 1)
             => UNCHANGED vars]_vars

\* C28: Escape pressed while the lightbox is open over an open project
\* panel closes the lightbox and leaves the panel open; Escape pressed with
\* a panel open and the lightbox closed closes the panel.
C28_EscapeClosesLightboxOnly ==
    [][EscapeKeyDown
       => /\ (lightboxOpen /\ isProjectOpen)
                => ~lightboxOpen' /\ galleryClasses' = galleryClasses
          /\ (~lightboxOpen /\ isProjectOpen)
                => galleryClasses' = {} /\ ~lightboxOpen']_vars

\* after the first Escape: the lightbox closed, its cleanup timer just set,
\* the left panel still open
C28_Witness ==
    /\ ~lightboxOpen /\ LightboxCleanup \in cleanupTimers
    /\ currentGalleryImages # <<>>
    /\ bodyOverflow = ""
    /\ galleryClasses = {"project-open-left"}

\* C29: while a desktop project panel is open, a click inside a gallery
\* column container, on a card or not, removes both panel classes and adds
\* none; and on a page whose desktop cards all lie inside those containers
\* project-open-left and project-open-right are never both set.
C29_ColumnClickOnlyCloses ==
    /\ [][\A inColumn \in BOOLEAN, card \in Columns \cup {"none"} :
            (PanelClick(inColumn, card) /\ galleryClasses # {} /\ inColumn)
            => galleryClasses' = {}]_vars
    /\ [](~({"project-open-left", "project-open-right"}
               \subseteq galleryClasses))

\* the right panel was open, a click closed it (both columns wait for their
\* indicator refresh), and no panel is open
C29_Witness ==
    /\ galleryClasses = {}
    /\ \A c \in Columns : PROJECT_SLIDE_DURATION \in indicatorTimers[c]
    /\ indicators["right"] = HiddenIndicators
    /\ ~state["right"].isScrolling

Expanded == {c \in MobileCards : "expanded" \in cardClasses[c]}

\* C30: at most one mobile card is expanded; while activeCard is set it is
\* the expanded card, the info button is hidden and body scrolling is
\* locked; while activeCard is null no card is expanded, the info button is
\* shown and body scrolling is not locked; and a tap on a second card
\* leaves only that card expanded.
C30_OneExpandedCard ==
    /\ Cardinality(Expanded) <= 1
    /\ IF activeCard # ""
       THEN Expanded = {activeCard} /\ infoHidden /\ bodyOverflow = "hidden"
       ELSE Expanded = {} /\ ~infoHidden /\ bodyOverflow = ""

\* C31: every expansion of a mobile card leaves exactly one history entry
\* pushed for it: while a card is expanded one pushed entry exists, also
\* after further clicks inside the expanded card, and once the card has
\* been closed, by whatever means, none remains.
C31_OneHistoryEntryPerCard ==
    historyDepth = IF activeCard # "" THEN 1 ELSE 0

\* C32: the focal point that handleUpdate sends is the focal point stored
\* for the image when its edit modal was opened or the point of the last
\* click on the edit preview since then, whatever the upload form did in
\* between.
C32_UpdateSendsEditFocal ==
    update.pc # "idle" => update.focalPoint \in update.allowed

\* C33: while a request of handleSave is in flight the save button stays
\* disabled, whatever form input events occur meanwhile.
C33_ButtonDisabledInFlight ==
    save.pc # "idle" => saveBtnDisabled

ReorderedAs(r) ==
    \A k \in DOMAIN reqs[r].ids :
        /\ reqs[r].ids[k] \in DOMAIN projects
        /\ projects[reqs[r].ids[k]].rank = k - 1

\* C36: when two overlapping reorder requests for the same category have
\* both made all their rank updates, none of which failed, the ranks of the
\* projects they list are the order submitted by one of the two.
C36_ReordersNotMixed ==
    \A r1, r2 \in Reqs :
        ( /\ r1 # r2
          /\ \A r \in {r1, r2} : /\ reqs[r].op = "reorder"
                                 /\ reqs[r].pc = "updates"
                                 /\ reqs[r].todo = {}
                                 /\ ~reqs[r].dbError
                                 /\ \A k \in DOMAIN reqs[r].ids :
                                       /\ reqs[r].ids[k] \in DOMAIN projects
                                       /\ projects[reqs[r].ids[k]].category
                                             = reqs[r].category
          /\ reqs[r1].category = reqs[r2].category )
        => ReorderedAs(r1) \/ ReorderedAs(r2)

\* C34: when the fetch of a reorder fails, by a network error or by an error
\* response, the local ranks are left as they were, the list is rendered in
\* the order of those ranks and the unpublished flag is left as it was.
C34_FailedReorderReverted ==
    [][ \A call \in ReorderCallIds :
          ( /\ reorderCalls[call].pc = "fetch"
            /\ reorderCalls'[call].pc = "idle"
            /\ reorderCalls'[call].outcome # "ok" )
          => /\ pageProjects' = pageProjects
             /\ listOrder' = renderProjectsList(pageProjects)
             /\ hasUnpublishedChanges' = hasUnpublishedChanges
      ]_vars

\* C35: the unpublished flag is set whenever a mutation has succeeded and no
\* publish started after it has succeeded.
C35_FlagCoversMutations == pendingChange => hasUnpublishedChanges

\* C37: every image id in a project's images list and every non-null
\* project thumbnail is the id of an image record.
C37_ProjectImagesExist ==
    \A p \in DOMAIN projects :
        /\ Range(projects[p].images) \subseteq DOMAIN images
        /\ projects[p].thumbnail # NullId
              => projects[p].thumbnail \in DOMAIN images

====
